---- MODULE Spec2Model ----
(***************************************************************************)
(* Review orchestration of the GitLab AI code review bot: the review       *)
(* service (classification, batched dispatch, publication), the RAG        *)
(* context retrieval with its cache, and the collaborators they call.      *)
(* Text is modelled as a sequence of one-character strings.                *)
(***************************************************************************)
EXTENDS Integers, Sequences, FiniteSets, TLC

\* JavaScript null / undefined
NULL == [null |-> TRUE]

\* ------------------------------------------------------------------------
\* Bounds of the model
\* ------------------------------------------------------------------------
MaxFiles == 4
MaxTicks == 1
SmallFileCap == 2

\* ------------------------------------------------------------------------
\* Text helpers (String.prototype.includes / split / pop / toLowerCase)
\* ------------------------------------------------------------------------
Upper == <<"A", "B", "C", "D", "E", "F", "G", "H", "I", "J", "K", "L", "M", "N", "O", "P", "Q", "R", "S", "T", "U", "V", "W", "X", "Y", "Z">>
LowerOf == <<"a", "b", "c", "d", "e", "f", "g", "h", "i", "j", "k", "l", "m", "n", "o", "p", "q", "r", "s", "t", "u", "v", "w", "x", "y", "z">>

LowerChar(c) ==
  IF \E i \in 1..26 : Upper[i] = c
    THEN LowerOf[CHOOSE i \in 1..26 : Upper[i] = c]
    ELSE c

toLowerCase(s) == [i \in 1..Len(s) |-> LowerChar(s[i])]

StartsAt(s, sub, p) ==
  /\ p + Len(sub) - 1 <= Len(s)
  /\ \A k \in 1..Len(sub) : s[p + k - 1] = sub[k]

includes(s, sub) == \E p \in 1..(Len(s) + 1) : StartsAt(s, sub, p)

endsWith(s, sub) ==
  /\ Len(sub) <= Len(s)
  /\ StartsAt(s, sub, Len(s) - Len(sub) + 1)

\* s.split(sep).pop(): the text after the last sep, all of s when there is none
splitPop(s, sep) ==
  LET ps == {p \in 1..Len(s) : s[p] = sep}
  IN  IF ps = {} THEN s
      ELSE LET last == CHOOSE p \in ps : \A q \in ps : q <= p
           IN  SubSeq(s, last + 1, Len(s))

\* s.substring(0, n)
substring0(s, n) == SubSeq(s, 1, IF Len(s) < n THEN Len(s) ELSE n)

\* ------------------------------------------------------------------------
\* Inputs: the files a merge request may change
\* ------------------------------------------------------------------------
FileUniverse ==
  { [new_path |-> <<"u", "i", "/", "a", ".", "j", "s", "x">>, deleted_file |-> FALSE,
     diff |-> [text |-> <<"u", "s", "e", "S", "t", "a", "t", "e", "(", "f", "e", "t", "c", "h", ")">>, pad |-> 0]],
    [new_path |-> <<"w", "e", "b", "/", "a", ".", "j", "s", "x">>, deleted_file |-> FALSE,
     diff |-> [text |-> <<"u", "s", "e", "S", "t", "a", "t", "e", "(", "f", "e", "t", "c", "h", ")">>, pad |-> 0]],
    [new_path |-> <<"b", ".", "p", "y">>, deleted_file |-> FALSE,
     diff |-> [text |-> <<"x", " ", "=", " ", "1">>, pad |-> 0]],
    [new_path |-> <<"s", "r", "v", "/", "c", ".", "g", "o">>, deleted_file |-> FALSE,
     diff |-> [text |-> <<"y", " ", ":", "=", " ", "2">>, pad |-> 0]],
    [new_path |-> <<"c", ".", "p", "n", "g">>, deleted_file |-> FALSE,
     diff |-> [text |-> <<>>, pad |-> 0]],
    [new_path |-> <<"o", "l", "d", ".", "j", "s">>, deleted_file |-> TRUE,
     diff |-> [text |-> <<>>, pad |-> 0]],
    [new_path |-> <<"y", "a", "r", "n", ".", "l", "o", "c", "k">>, deleted_file |-> FALSE,
     diff |-> [text |-> <<"v", "1">>, pad |-> 0]],
    [new_path |-> <<"b", "i", "g", ".", "t", "s">>, deleted_file |-> FALSE,
     diff |-> [text |-> <<"a", "w", "a", "i", "t">>, pad |-> 5000]] }

\* Further files, for the classification taken on its own
EdgeFiles ==
  { [new_path |-> <<"c", "l", "o", "c", "k", ".", "j", "s">>, deleted_file |-> FALSE,
     diff |-> [text |-> <<"t", "i", "c", "k", "(", ")">>, pad |-> 0]],
    [new_path |-> <<"e", "x", "e">>, deleted_file |-> FALSE,
     diff |-> [text |-> <<"#", "!", "/", "b", "i", "n", "/", "s", "h">>, pad |-> 0]],
    [new_path |-> <<"e", "d", "g", "e", ".", "p", "y">>, deleted_file |-> FALSE,
     diff |-> [text |-> <<"x">>, pad |-> 4999]],
    [new_path |-> <<"r", "e", "d", "i", "s", "t", "/", "A", ".", "P", "N", "G">>, deleted_file |-> FALSE,
     diff |-> [text |-> <<>>, pad |-> 0]] }

\* ------------------------------------------------------------------------
\* Configuration (config/index.js)
\* ------------------------------------------------------------------------
DefaultMaxFilesPerReview == 20
maxDiffSize == 5000
skipPatterns == << <<"n", "o", "d", "e", "_", "m", "o", "d", "u", "l", "e", "s">>, <<"d", "i", "s", "t">>, <<"b", "u", "i", "l", "d">>, <<"*", ".", "l", "o", "c", "k">> >>

\* ------------------------------------------------------------------------
\* Change classification (ReviewService.filterFilesToReview)
\* ------------------------------------------------------------------------
\* pattern.replace('*', '.*'): only the first '*' is replaced
replaceStar(pattern) ==
  LET ps == {p \in 1..Len(pattern) : pattern[p] = "*"}
  IN  IF ps = {} THEN pattern
      ELSE LET first == CHOOSE p \in ps : \A q \in ps : p <= q
           IN  SubSeq(pattern, 1, first - 1) \o <<".", "*">>
                 \o SubSeq(pattern, first + 1, Len(pattern))

\* new RegExp(source) for sources made of literals, '.' and '*':
\* a list of atoms, each a literal or the wildcard '.', possibly starred
RECURSIVE regexAtoms(_)
regexAtoms(src) ==
  IF src = <<>> THEN <<>>
  ELSE LET starred == Len(src) >= 2 /\ src[2] = "*"
           atom == [any |-> (src[1] = "."), ch |-> src[1], star |-> starred]
       IN  <<atom>> \o regexAtoms(SubSeq(src, IF starred THEN 3 ELSE 2, Len(src)))

atomMatches(atom, c) == atom.any \/ atom.ch = c

RECURSIVE matchHere(_, _)
matchHere(atoms, s) ==
  IF atoms = <<>> THEN TRUE
  ELSE LET a == Head(atoms)
       IN  IF a.star
             THEN \E k \in 0..Len(s) :
                    /\ \A j \in 1..k : atomMatches(a, s[j])
                    /\ matchHere(Tail(atoms), SubSeq(s, k + 1, Len(s)))
             ELSE /\ s # <<>>
                  /\ atomMatches(a, Head(s))
                  /\ matchHere(Tail(atoms), Tail(s))

\* regex.test(s): an unanchored search
regexTest(src, s) ==
  \E p \in 1..(Len(s) + 1) : matchHere(regexAtoms(src), SubSeq(s, p, Len(s)))

matchesSkipPattern(pattern, path) ==
  IF includes(pattern, <<"*">>)
    THEN regexTest(replaceStar(pattern), path)
    ELSE includes(path, pattern)

shouldSkip(path) ==
  \E i \in 1..Len(skipPatterns) : matchesSkipPattern(skipPatterns[i], path)

binaryExtensions ==
  { <<"j", "p", "g">>, <<"j", "p", "e", "g">>, <<"p", "n", "g">>, <<"g", "i", "f">>, <<"s", "v", "g">>, <<"i", "c", "o">>, <<"w", "e", "b", "p">>,
    <<"p", "d", "f">>, <<"z", "i", "p">>, <<"t", "a", "r">>, <<"g", "z">>, <<"r", "a", "r">>,
    <<"m", "p", "3">>, <<"m", "p", "4">>, <<"a", "v", "i">>, <<"m", "o", "v">>,
    <<"e", "x", "e">>, <<"d", "l", "l">>, <<"s", "o">>, <<"d", "y", "l", "i", "b">>,
    <<"w", "o", "f", "f">>, <<"w", "o", "f", "f", "2">>, <<"t", "t", "f">>, <<"e", "o", "t">> }

isBinaryFile(filePath) == toLowerCase(splitPop(filePath, ".")) \in binaryExtensions

\* A diff is its text that matters to the pattern checks plus `pad` further
\* characters that take part in no pattern; diff.length is their sum.
diffLength(diff) == Len(diff.text) + diff.pad

keepChange(change) ==
  /\ ~change.deleted_file
  /\ ~shouldSkip(change.new_path)
  /\ ~(diffLength(change.diff) > 0 /\ diffLength(change.diff) > maxDiffSize)
  /\ ~isBinaryFile(change.new_path)

\* keepChange, evaluated once for every file
Classified == [f \in FileUniverse \cup EdgeFiles |-> keepChange(f)]

\* Faulty variant of filterFilesToReview: nothing is filtered out
filterFilesToReviewKeepsAll(changes) == changes

filterFilesToReview(changes) == SelectSeq(changes, LAMBDA change : Classified[change])

\* ------------------------------------------------------------------------
\* ReviewService.isFrontendFile
\* ------------------------------------------------------------------------
frontendExtensions ==
  { <<".", "j", "s">>, <<".", "j", "s", "x">>, <<".", "t", "s">>, <<".", "t", "s", "x">>, <<".", "v", "u", "e">>, <<".", "h", "t", "m", "l">>,
    <<".", "c", "s", "s">>, <<".", "s", "c", "s", "s">>, <<".", "l", "e", "s", "s">> }

frontendDirs ==
  { <<"c", "o", "m", "p", "o", "n", "e", "n", "t", "/">>, <<"c", "o", "m", "p", "o", "n", "e", "n", "t", "s", "/">>, <<"v", "i", "e", "w", "/">>, <<"v", "i", "e", "w", "s", "/">>,
    <<"p", "a", "g", "e", "/">>, <<"p", "a", "g", "e", "s", "/">>, <<"f", "r", "o", "n", "t", "e", "n", "d", "/">>, <<"c", "l", "i", "e", "n", "t", "/">> }

isFrontendFile(filePath) ==
  \/ \E e \in frontendExtensions : endsWith(filePath, e)
  \/ \E d \in frontendDirs : includes(toLowerCase(filePath), d)

\* ------------------------------------------------------------------------
\* RAG service: category, query and cache key (rag.service.js)
\* ------------------------------------------------------------------------
isFrontendPath(path) ==
  \E ind \in { <<"c", "o", "m", "p", "o", "n", "e", "n", "t", "s">>, <<"v", "i", "e", "w", "s">>, <<"p", "a", "g", "e", "s">>, <<"f", "r", "o", "n", "t", "e", "n", "d">>, <<"c", "l", "i", "e", "n", "t">>,
               <<"u", "i">>, <<"s", "r", "c", "/", "a", "p", "p">>, <<"p", "u", "b", "l", "i", "c">> } : includes(path, ind)

determineCategory(filePath) ==
  LET ext == toLowerCase(splitPop(filePath, "."))
      path == toLowerCase(filePath)
  IN  IF ext \in { <<"j", "s", "x">>, <<"t", "s", "x">> } \/ includes(path, <<"r", "e", "a", "c", "t">>) THEN <<"r", "e", "a", "c", "t">>
      ELSE IF ext = <<"v", "u", "e">> \/ includes(path, <<"v", "u", "e">>) THEN <<"v", "u", "e">>
      ELSE IF includes(path, <<"a", "n", "g", "u", "l", "a", "r">>) THEN <<"a", "n", "g", "u", "l", "a", "r">>
      ELSE IF ext \in { <<"c", "s", "s">>, <<"s", "c", "s", "s">>, <<"l", "e", "s", "s">> } THEN <<"c", "s", "s">>
      ELSE IF ext = <<"h", "t", "m", "l">> THEN <<"h", "t", "m", "l">>
      ELSE IF ext \in { <<"j", "s">>, <<"t", "s">> } /\ isFrontendPath(path) THEN <<"f", "r", "o", "n", "t", "e", "n", "d">>
      ELSE IF ext = <<"p", "y">> THEN <<"p", "y", "t", "h", "o", "n">>
      ELSE IF ext = <<"g", "o">> THEN <<"g", "o", "l", "a", "n", "g">>
      ELSE IF ext = <<"j", "a", "v", "a">> THEN <<"j", "a", "v", "a">>
      ELSE IF includes(path, <<"a", "u", "t", "h">>) \/ includes(path, <<"s", "e", "c", "u", "r", "i", "t", "y">>) THEN <<"s", "e", "c", "u", "r", "i", "t", "y">>
      ELSE IF includes(path, <<"a", "p", "i">>) \/ includes(path, <<"c", "o", "n", "t", "r", "o", "l", "l", "e", "r">>) THEN <<"a", "p", "i">>
      ELSE IF includes(path, <<"m", "o", "d", "e", "l">>) \/ includes(path, <<"r", "e", "p", "o", "s", "i", "t", "o", "r", "y">>) \/ ext = <<"s", "q", "l">>
        THEN <<"d", "a", "t", "a", "b", "a", "s", "e">>
      ELSE <<"g", "e", "n", "e", "r", "a", "l">>

\* /a|b|c/i.test(text) for literal alternatives
testAnyOf(alternatives, text) ==
  \E a \in alternatives : includes(toLowerCase(text), toLowerCase(a))

extractPatterns(diff) ==
  [ hasStateManagement |->
      testAnyOf({ <<"u", "s", "e", "S", "t", "a", "t", "e">>, <<"u", "s", "e", "R", "e", "d", "u", "c", "e", "r">>, <<"r", "e", "d", "u", "x">>, <<"v", "u", "e", "x">>, <<"s", "t", "o", "r", "e">> }, diff.text),
    hasAsyncOperations |->
      testAnyOf({ <<"a", "s", "y", "n", "c">>, <<"a", "w", "a", "i", "t">>, <<"P", "r", "o", "m", "i", "s", "e">>, <<"t", "h", "e", "n", "(">>, <<"c", "a", "t", "c", "h", "(">> }, diff.text),
    hasAPIcalls |->
      testAnyOf({ <<"f", "e", "t", "c", "h">>, <<"a", "x", "i", "o", "s">>, <<"a", "p", "i", ".">>, <<"e", "n", "d", "p", "o", "i", "n", "t">> }, diff.text),
    hasAccessibility |->
      testAnyOf({ <<"a", "r", "i", "a", "-">>, <<"r", "o", "l", "e", "=">>, <<"a", "l", "t", "=">>, <<"l", "a", "b", "e", "l">> }, diff.text),
    hasPerformance |->
      testAnyOf({ <<"u", "s", "e", "M", "e", "m", "o">>, <<"u", "s", "e", "C", "a", "l", "l", "b", "a", "c", "k">>, <<"m", "e", "m", "o", "(">>, <<"p", "e", "r", "f", "o", "r", "m", "a", "n", "c", "e">> }, diff.text),
    hasSecurity |->
      testAnyOf({ <<"p", "a", "s", "s", "w", "o", "r", "d">>, <<"t", "o", "k", "e", "n">>, <<"a", "u", "t", "h">>, <<"s", "a", "n", "i", "t", "i", "z", "e">>, <<"e", "s", "c", "a", "p", "e">> }, diff.text),
    hasTestCode |->
      testAnyOf({ <<"t", "e", "s", "t", "(">>, <<"i", "t", "(">>, <<"d", "e", "s", "c", "r", "i", "b", "e", "(">>, <<"e", "x", "p", "e", "c", "t", "(">> }, diff.text),
    hasErrorHandling |->
      testAnyOf({ <<"t", "r", "y">>, <<"c", "a", "t", "c", "h">>, <<"e", "r", "r", "o", "r">>, <<"e", "x", "c", "e", "p", "t", "i", "o", "n">> }, diff.text) ]

buildKnowledgeQuery(filePath, diff) ==
  LET fileName == splitPop(filePath, "/")
      patterns == extractPatterns(diff)
  IN  <<"B", "e", "s", "t", " ", "p", "r", "a", "c", "t", "i", "c", "e", "s", " ", "f", "o", "r", " ">> \o fileName
        \o (IF patterns.hasStateManagement THEN <<" ", "w", "i", "t", "h", " ", "s", "t", "a", "t", "e", " ", "m", "a", "n", "a", "g", "e", "m", "e", "n", "t">> ELSE <<>>)
        \o (IF patterns.hasAsyncOperations THEN <<" ", "a", "n", "d", " ", "a", "s", "y", "n", "c", " ", "o", "p", "e", "r", "a", "t", "i", "o", "n", "s">> ELSE <<>>)
        \o (IF patterns.hasAPIcalls THEN <<" ", "a", "n", "d", " ", "A", "P", "I", " ", "i", "n", "t", "e", "g", "r", "a", "t", "i", "o", "n">> ELSE <<>>)
        \o (IF patterns.hasAccessibility THEN <<" ", "f", "o", "c", "u", "s", "i", "n", "g", " ", "o", "n", " ", "a", "c", "c", "e", "s", "s", "i", "b", "i", "l", "i", "t", "y">> ELSE <<>>)
        \o (IF patterns.hasPerformance THEN <<" ", "a", "n", "d", " ", "p", "e", "r", "f", "o", "r", "m", "a", "n", "c", "e", " ", "o", "p", "t", "i", "m", "i", "z", "a", "t", "i", "o", "n">> ELSE <<>>)

keyPrefixLength == 100

getCacheKey(category, query) == category \o <<":">> \o substring0(query, keyPrefixLength)

\* ------------------------------------------------------------------------
\* RAG cache: a Map, kept as the list of its entries in insertion order
\* ------------------------------------------------------------------------
cacheExpiry == 3600000
cacheLimit == 100

cacheHas(c, key) == \E i \in 1..Len(c) : c[i].key = key

cacheGet(c, key) == c[CHOOSE i \in 1..Len(c) : c[i].key = key]

cacheDelete(c, key) == SelectSeq(c, LAMBDA e : e.key # key)

\* Map.set: a present key keeps its position, a new key goes last
cacheSet(c, key, entry) ==
  IF cacheHas(c, key)
    THEN [i \in 1..Len(c) |-> IF c[i].key = key THEN entry ELSE c[i]]
    ELSE Append(c, entry)

\* Faulty variant of getFromCache: the difference is taken the wrong way round
getFromCacheNeverExpires(c, key, t) ==
  IF ~cacheHas(c, key) THEN NULL
  ELSE IF cacheGet(c, key).timestamp - t > cacheExpiry THEN NULL
  ELSE cacheGet(c, key).data

\* getFromCache: the value found (NULL when absent or expired) ...
getFromCache(c, key, t) ==
  IF ~cacheHas(c, key) THEN NULL
  ELSE IF t - cacheGet(c, key).timestamp > cacheExpiry THEN NULL
  ELSE cacheGet(c, key).data

\* A lookup that renews the entry it returns
cacheAfterGetRefreshes(c, key, t) ==
  IF cacheHas(c, key) /\ t - cacheGet(c, key).timestamp > cacheExpiry
    THEN cacheDelete(c, key)
  ELSE IF cacheHas(c, key)
    THEN cacheSet(cacheDelete(c, key), key, [cacheGet(c, key) EXCEPT !.timestamp = t])
  ELSE c

\* ... and the cache it leaves: an expired entry is deleted by the lookup
cacheAfterGet(c, key, t) ==
  IF cacheHas(c, key) /\ t - cacheGet(c, key).timestamp > cacheExpiry
    THEN cacheDelete(c, key)
    ELSE c

setCache(c, key, data, t) ==
  LET trimmed == IF Len(c) > cacheLimit THEN Tail(c) ELSE c
  IN  cacheSet(trimmed, key, [key |-> key, data |-> data, timestamp |-> t])

\* ------------------------------------------------------------------------
\* Inputs: change sets, and what the knowledge bases may answer
\* ------------------------------------------------------------------------
\* Change sets: paths are unique within one change set
RECURSIVE SeqsOver(_, _)
SeqsOver(S, n) ==
  IF n = 0 THEN {<<>>}
  ELSE LET shorter == SeqsOver(S, n - 1)
       IN  shorter \cup
             {Append(s, f) : s \in {t \in shorter : Len(t) = n - 1}, f \in S}

ChangeSets ==
  {s \in SeqsOver(FileUniverse, MaxFiles) :
     \A i, j \in 1..Len(s) : i # j => s[i] # s[j]}

\* A JavaScript string whose content plays no part, as a value of its own
\* kind so that it can be told from null
Text(s) == [text |-> s]

\* response.data of the knowledge query: a chat message with its answer,
\* with or without retrieved documents in its metadata
DifyResponses ==
  { [answer |-> Text("remote answer"), message_id |-> "m1",
     metadata |-> [retriever_resources |-> <<"doc">>]],
    [answer |-> Text("remote answer"), message_id |-> "m2",
     metadata |-> [usage |-> 0]] }

\* Faulty variant of queryKnowledgeBaseResult: the answer is read from a field
\* the response does not have
queryKnowledgeBaseResultWrongField(data) ==
  [ answer |-> IF "text" \in DOMAIN data THEN data.text ELSE NULL,
    sources |-> IF "retriever_resources" \in DOMAIN data.metadata
                  THEN data.metadata.retriever_resources ELSE <<>>,
    messageId |-> data.message_id ]

\* What DifyService.queryKnowledgeBase returns for a response
queryKnowledgeBaseResult(data) ==
  [ answer |-> data.answer,
    sources |-> IF "retriever_resources" \in DOMAIN data.metadata
                  THEN data.metadata.retriever_resources ELSE <<>>,
    messageId |-> data.message_id ]

RemoteResults == {queryKnowledgeBaseResult(data) : data \in DifyResponses}

\* The local knowledge base as LocalRAGService.search finds it: the files
\* getRelevantFiles selects and the text extractRelevantSections makes of them
KnowledgeBases ==
  { [files |-> <<"kb.md">>, extract |-> Text("local answer")],
    [files |-> <<>>, extract |-> Text("...")] }

\* What LocalRAGService.search returns: null when no file is selected
localSearchResult(kb) ==
  IF Len(kb.files) = 0 THEN NULL
  ELSE [answer |-> kb.extract, sources |-> kb.files, isLocal |-> TRUE]

LocalResults == {localSearchResult(kb) : kb \in KnowledgeBases} \ {NULL}

Configs ==
  [ragEnabled : BOOLEAN, maxFilesPerReview : {SmallFileCap, DefaultMaxFilesPerReview}]

\* ------------------------------------------------------------------------
\* State
\* ------------------------------------------------------------------------
VARIABLES
  config,        \* config.rag.enabled, config.review.maxFilesPerReview
  changeList,    \* changes.changes as given to filterFilesToReview (SpecClassify)
  now,           \* Date.now()
  cache,         \* RAGService.cache
  pc,            \* where reviewMergeRequest is suspended
  changeCount,   \* changes.changes.length of the fetched change set
  filesToReview, \* the files kept by filterFilesToReview
  batchStart,    \* loop index i of reviewFilesWithConcurrency (1-based)
  task,          \* one reviewFile call per dispatched file
  settleOrder,   \* the calls of the current batch, in the order they settled
  batches,       \* the batches issued so far, as <<first, last>> index pairs
  results,       \* results of reviewFilesWithConcurrency
  posts,         \* addMergeRequestComment calls made, in order
  statuses,      \* updateCommitStatus calls made, in order
  emoji,         \* addEmoji call: none, ok, failed
  failure,       \* the operation whose error was caught by reviewMergeRequest
  ret,           \* what reviewMergeRequest returned, or that it threw
  queryCall,     \* a call of RAGService.buildKnowledgeQuery (SpecQuery)
  webhookSecret, \* config.gitlab.webhookSecret (SpecWebhook)
  requests,      \* the POST /webhook/gitlab requests received, in order
  responses,     \* the responses sent, in order, each naming its request
  reviewCalls,   \* the reviewMergeRequest promises the controller started
  logged,        \* what the controller's then/catch callbacks logged
  retryRun,      \* a call of helpers.retry (SpecRetry)
  chunkRun,      \* a call of helpers.chunk (SpecChunk)
  searchCall     \* a call of LocalRAGService.search (SpecLocalSearch)

\* The state outside one invocation of reviewMergeRequest
aside ==
  << queryCall, webhookSecret, requests, responses, reviewCalls, logged, retryRun, chunkRun,
     searchCall >>

vars ==
  << config, aside, changeList, now, cache, pc, changeCount, filesToReview, batchStart, task,
     settleOrder, batches, results, posts, statuses, emoji, failure, ret >>

min(a, b) == IF a < b THEN a ELSE b

\* A cap that is one too generous
sliceOneMore(files, end) == SubSeq(files, 1, min(Len(files), end + 1))

\* files.slice(0, end), end >= 0
slice(files, end) == SubSeq(files, 1, min(Len(files), end))

\* filesToReview.slice(0, config.review.maxFilesPerReview)
limitedFiles == slice(filesToReview, config.maxFilesPerReview)

idleTask ==
  [ st |-> "idle", cacheKey |-> <<>>, hit |-> FALSE,
    remoteCalls |-> 0, remoteOutcome |-> "none",
    localCalls |-> 0, localOutcome |-> "none",
    ctxStatus |-> "none", ragContext |-> NULL,
    analysis |-> "none", settled |-> "pending", value |-> NULL ]

\* Nothing is under way outside reviewMergeRequest
InitAside ==
  /\ queryCall = NULL
  /\ requests = <<>>
  /\ responses = <<>>
  /\ reviewCalls = <<>>
  /\ logged = <<>>
  /\ retryRun = NULL
  /\ chunkRun = NULL
  /\ searchCall = NULL

\* reviewMergeRequest has just been called
InitReview ==
  /\ config \in Configs
  /\ changeList = <<>>
  /\ now = 0
  /\ cache = <<>>
  /\ pc = "getMR"
  /\ changeCount = 0
  /\ filesToReview = <<>>
  /\ batchStart = 1
  /\ task = <<>>
  /\ settleOrder = <<>>
  /\ batches = <<>>
  /\ results = <<>>
  /\ posts = <<>>
  /\ statuses = <<>>
  /\ emoji = "none"
  /\ failure = "none"
  /\ ret = NULL

Init ==
  /\ InitReview
  /\ webhookSecret = NULL
  /\ InitAside

\* ------------------------------------------------------------------------
\* RAGService.getRelevantContext and ReviewService.reviewFile, one step per
\* resumption after an await
\* ------------------------------------------------------------------------
\* Faulty variant of afterRemote: the remote result does not end the retrieval
afterRemoteNoEarlyReturn(kind) ==
  IF kind = "raise" THEN "catch" ELSE "local"

\* What getRelevantContext does with the outcome of the remote query
afterRemote(kind) ==
  IF kind = "result" THEN "cacheAndReturn"
  ELSE IF kind = "null" THEN "local"
  ELSE "catch"

\* Faulty variant of afterLocal: a null result is stored like any other
afterLocalStoresNull(kind) ==
  IF kind = "raise" THEN "catch" ELSE "cacheAndReturn"

\* ... with the outcome of the local search made in the try block
afterLocal(kind) ==
  IF kind = "result" THEN "cacheAndReturn"
  ELSE IF kind = "null" THEN "return"
  ELSE "catch"

\* Faulty variant of afterLocalInCatch: the inner try/catch is missing
afterLocalInCatchUnguarded(kind) ==
  IF kind = "raise" THEN "reject" ELSE "return"

\* ... and with the outcome of the local search made in the catch block
afterLocalInCatch(kind) ==
  IF kind = "raise" THEN "returnNull" ELSE "return"

\* reviewFile's catch block: the error is logged and null is returned
reviewFileCatch == [settled |-> "fulfilled", value |-> NULL]

\* reviewFile's return value after a successful analysis
reviewOutcome(change, ragContext) ==
  [ file |-> change.new_path,
    review |-> Text("review"),
    hasBestPractices |-> (ragContext # NULL),
    ragSources |-> IF ragContext = NULL THEN <<>> ELSE ragContext.sources ]

\* getRelevantContext resolved with ctx: reviewFile goes on to analyzeCode
analyzeWith(t, ctx) ==
  [t EXCEPT !.st = "analyze", !.ctxStatus = "resolved", !.ragContext = ctx,
            !.analysis = "pending"]

\* A settled reviewFile call: its locals are gone, what is left is how the
\* retrieval and the analysis ended and the value the call settled with
settledTask(ctxStatus, analysis, settled, value) ==
  [idleTask EXCEPT !.st = "done", !.ctxStatus = ctxStatus, !.analysis = analysis,
                   !.settled = settled, !.value = value]

\* getRelevantContext rejected: reviewFile's catch block runs
contextRejected(t) ==
  settledTask("rejected", "none", reviewFileCatch.settled, reviewFileCatch.value)

\* isFrontendFile and the cache key of getRelevantContext, evaluated once for
\* every file of the universe
Frontend == [f \in FileUniverse |-> isFrontendFile(f.new_path)]

ContextKey ==
  [f \in FileUniverse |->
     getCacheKey(determineCategory(f.new_path), buildKnowledgeQuery(f.new_path, f.diff))]

\* getRelevantContext up to its first await: the cache is looked up under
\* the key; a hit is returned at once, a miss goes on to the remote query
lookupContext(key, c, t) ==
  LET cached == getFromCache(c, key, t)
      looked == [idleTask EXCEPT !.cacheKey = key, !.ctxStatus = "pending"]
  IN  IF cached # NULL
        THEN [ task |-> analyzeWith([looked EXCEPT !.hit = TRUE], cached),
               cache |-> cacheAfterGet(c, key, t) ]
        ELSE [ task |-> [looked EXCEPT !.st = "remote", !.remoteCalls = 1],
               cache |-> cacheAfterGet(c, key, t) ]

\* Faulty variant of getRelevantContext: the configuration is not consulted
getRelevantContextUnguarded(key, c, t) ==
  lookupContext(key, c, t)

\* getRelevantContext up to its first await, or to its return when RAG is
\* disabled: null comes back before the key is computed and the cache read
getRelevantContext(key, c, t) ==
  IF ~config.ragEnabled
    THEN [ task |-> analyzeWith(idleTask, NULL), cache |-> c ]
    ELSE lookupContext(key, c, t)

\* A reviewFile that asks for context for every file once RAG is enabled
startReviewFileAnyPath(change, c, t) ==
  IF config.ragEnabled
    THEN getRelevantContext(ContextKey[change], c, t)
    ELSE [ task |-> [idleTask EXCEPT !.st = "analyze", !.analysis = "pending"],
           cache |-> c ]

\* The synchronous start of reviewFile(change), up to its first await
startReviewFile(change, c, t) ==
  IF config.ragEnabled /\ Frontend[change]
    THEN getRelevantContext(ContextKey[change], c, t)
    ELSE [ task |-> [idleTask EXCEPT !.st = "analyze", !.analysis = "pending"],
           cache |-> c ]

onRemote(t, kind, r, c, time) ==
  LET seen == [t EXCEPT !.remoteOutcome = kind]
      next == afterRemote(kind)
  IN  IF next = "cacheAndReturn"
        THEN [task |-> analyzeWith(seen, r), cache |-> setCache(c, t.cacheKey, r, time)]
      ELSE IF next = "local"
        THEN [task |-> [seen EXCEPT !.st = "local", !.localCalls = @ + 1], cache |-> c]
      ELSE [task |-> [seen EXCEPT !.st = "localCatch", !.localCalls = @ + 1], cache |-> c]

onLocal(t, kind, r, c, time) ==
  LET seen == [t EXCEPT !.localOutcome = kind]
      next == afterLocal(kind)
  IN  IF next = "cacheAndReturn"
        THEN [task |-> analyzeWith(seen, r), cache |-> setCache(c, t.cacheKey, r, time)]
      ELSE IF next = "return"
        THEN [task |-> analyzeWith(seen, r), cache |-> c]
      ELSE [task |-> [seen EXCEPT !.st = "localCatch", !.localCalls = @ + 1], cache |-> c]

onLocalInCatch(t, kind, r) ==
  LET seen == [t EXCEPT !.localOutcome = kind]
      next == afterLocalInCatch(kind)
  IN  IF next = "return" THEN analyzeWith(seen, r)
      ELSE IF next = "returnNull" THEN analyzeWith(seen, NULL)
      ELSE contextRejected(seen)

onAnalyzed(t, change, ok) ==
  IF ok
    THEN settledTask(t.ctxStatus, "ok", "fulfilled", reviewOutcome(change, t.ragContext))
    ELSE settledTask(t.ctxStatus, "failed", reviewFileCatch.settled, reviewFileCatch.value)

\* ------------------------------------------------------------------------
\* ReviewService.reviewFilesWithConcurrency
\* ------------------------------------------------------------------------
\* Faulty variant of concurrency: one more call per batch
concurrencyRaised == 3 + 1

concurrency == 3

\* Faulty variant of batchLast: the slice of a batch ends one file too far
batchLastOffByOne(first, n) == min(first + concurrency, n)

batchLast(first, n) == min(first + concurrency - 1, n)

\* Faulty variant of awaitBatch: the await ends with the first call that settles
awaitFirstSettled(calls) ==
  IF \E i \in 1..Len(calls) : calls[i].settled # "pending" THEN "resolved" ELSE "pending"

\* await Promise.allSettled(calls): pending until every call has settled
awaitBatch(calls) ==
  IF \A i \in 1..Len(calls) : calls[i].settled # "pending" THEN "resolved" ELSE "pending"

\* Faulty variant of foldOrder: results are appended as the calls settle
foldOrderOfCompletion(first, last, settledInOrder) == settledInOrder

\* Promise.allSettled hands back the results in the order of the calls,
\* whatever the order in which they settled
foldOrder(first, last, settledInOrder) == [k \in 1..(last - first + 1) |-> first + k - 1]

\* batchResults.forEach: fulfilled non-null values are pushed, the rest dropped
RECURSIVE collect(_, _, _)
collect(acc, tasks, order) ==
  IF order = <<>> THEN acc
  ELSE LET c == tasks[Head(order)]
       IN  collect(IF c.settled = "fulfilled" /\ c.value # NULL
                     THEN Append(acc, c.value) ELSE acc,
                   tasks, Tail(order))

\* batch.map((file) => this.reviewFile(file, ...)): the calls of one batch
\* start one after the other, each running up to its first await
RECURSIVE startBatch(_, _, _, _, _)
startBatch(files, first, last, tasks, c) ==
  IF first > last THEN [task |-> tasks, cache |-> c]
  ELSE LET s == startReviewFile(files[first], c, now)
       IN  startBatch(files, first + 1, last,
                      [tasks EXCEPT ![first] = s.task], s.cache)

\* ------------------------------------------------------------------------
\* ReviewService.reviewMergeRequest, publishReview, publishEmptyReview
\* ------------------------------------------------------------------------
emptyComment == [kind |-> "empty"]

buildReviewComment(reviews, meta) ==
  [ kind |-> "review",
    reviewedFiles |-> meta.reviewedFiles,
    totalFiles |-> meta.totalFiles,
    sections |-> [i \in 1..Len(reviews) |->
                    [ file |-> reviews[i].file,
                      bestPractices |-> reviews[i].hasBestPractices
                                          /\ Len(reviews[i].ragSources) > 0,
                      review |-> reviews[i].review ]] ]

\* The comment publishReview posts
reviewComment(reviews) ==
  IF Len(reviews) = 0 THEN emptyComment
  ELSE buildReviewComment(reviews,
         [totalFiles |-> Len(filesToReview), reviewedFiles |-> Len(limitedFiles)])

statusCall(state, description, ok) ==
  [state |-> state, description |-> description, ok |-> ok]

\* The catch block of reviewMergeRequest starts by fetching the merge request
enterCatch(op) ==
  /\ failure' = op
  /\ pc' = "catchGetMR"

GetMergeRequestOk ==
  /\ pc = "getMR"
  /\ pc' = "setRunning"
  /\ UNCHANGED << config, aside, changeList, now, cache, changeCount, filesToReview, batchStart, task,
                  settleOrder, batches, results, posts, statuses, emoji, failure, ret >>

GetMergeRequestFail ==
  /\ pc = "getMR"
  /\ enterCatch("getMergeRequest")
  /\ UNCHANGED << config, aside, changeList, now, cache, changeCount, filesToReview, batchStart, task,
                  settleOrder, batches, results, posts, statuses, emoji, ret >>

SetRunningOk ==
  /\ pc = "setRunning"
  /\ statuses' = Append(statuses, statusCall("running", NULL, TRUE))
  /\ pc' = "getChanges"
  /\ UNCHANGED << config, aside, changeList, now, cache, changeCount, filesToReview, batchStart, task,
                  settleOrder, batches, results, posts, emoji, failure, ret >>

\* A failed status update that is only logged: the review goes on
SetRunningFailSwallowed ==
  /\ pc = "setRunning"
  /\ statuses' = Append(statuses, statusCall("running", NULL, FALSE))
  /\ pc' = "getChanges"
  /\ UNCHANGED << config, aside, changeList, now, cache, changeCount, filesToReview, batchStart, task,
                  settleOrder, batches, results, posts, emoji, failure, ret >>

SetRunningFail ==
  /\ pc = "setRunning"
  /\ statuses' = Append(statuses, statusCall("running", NULL, FALSE))
  /\ enterCatch("updateCommitStatus")
  /\ UNCHANGED << config, aside, changeList, now, cache, changeCount, filesToReview, batchStart, task,
                  settleOrder, batches, results, posts, emoji, ret >>

\* getMergeRequestChanges resolved: filter, then either publish the empty
\* notice or cap the list and start the first batch
GetChangesOk ==
  /\ pc = "getChanges"
  /\ \E changes \in ChangeSets :
       LET kept == filterFilesToReview(changes)
           limited == slice(kept, config.maxFilesPerReview)
           last == batchLast(1, Len(limited))
           started == startBatch(limited, 1, last,
                                 [i \in 1..Len(limited) |-> idleTask], cache)
       IN  /\ changeCount' = Len(changes)
           /\ filesToReview' = kept
           /\ IF Len(kept) = 0
                THEN /\ pc' = "postEmpty"
                     /\ UNCHANGED << cache, task, batches >>
                ELSE /\ pc' = "batch"
                     /\ task' = started.task
                     /\ cache' = started.cache
                     /\ batches' = Append(batches, <<1, last>>)
  /\ UNCHANGED << config, aside, changeList, now, batchStart, settleOrder, results, posts, statuses,
                  emoji, failure, ret >>

GetChangesFail ==
  /\ pc = "getChanges"
  /\ enterCatch("getMergeRequestChanges")
  /\ UNCHANGED << config, aside, changeList, now, cache, changeCount, filesToReview, batchStart, task,
                  settleOrder, batches, results, posts, statuses, emoji, ret >>

\* Faulty variant of PostEmptyOk: the return after publishEmptyReview is missing
PostEmptyOkFallsThrough ==
  /\ pc = "postEmpty"
  /\ posts' = Append(posts, [comment |-> emptyComment, ok |-> TRUE])
  /\ pc' = "postReview"
  /\ UNCHANGED << config, aside, changeList, now, cache, changeCount, filesToReview, batchStart,
                  task, settleOrder, batches, results, statuses, emoji, failure, ret >>

\* publishEmptyReview called from reviewMergeRequest when nothing is eligible
PostEmptyOk ==
  /\ pc = "postEmpty"
  /\ posts' = Append(posts, [comment |-> emptyComment, ok |-> TRUE])
  /\ ret' = [success |-> TRUE, filesReviewed |-> 0]
  /\ pc' = "done"
  /\ UNCHANGED << config, aside, changeList, now, cache, changeCount, filesToReview, batchStart, task,
                  settleOrder, batches, results, statuses, emoji, failure >>

PostEmptyFail ==
  /\ pc = "postEmpty"
  /\ posts' = Append(posts, [comment |-> emptyComment, ok |-> FALSE])
  /\ enterCatch("addMergeRequestComment")
  /\ UNCHANGED << config, aside, changeList, now, cache, changeCount, filesToReview, batchStart, task,
                  settleOrder, batches, results, statuses, emoji, ret >>

\* ------------------------------------------------------------------------
\* The calls of the batch in flight
\* ------------------------------------------------------------------------
inBatch(i) ==
  /\ pc = "batch"
  /\ i \in batchStart..batchLast(batchStart, Len(limitedFiles))

settledNow(i, t) == IF t.settled # "pending" THEN Append(settleOrder, i) ELSE settleOrder

taskFrame ==
  << config, aside, changeList, now, pc, changeCount, filesToReview, batchStart, batches, results,
     posts, statuses, emoji, failure, ret >>

RemoteReturns(i, kind, r) ==
  /\ inBatch(i)
  /\ task[i].st = "remote"
  /\ LET s == onRemote(task[i], kind, r, cache, now)
     IN  /\ task' = [task EXCEPT ![i] = s.task]
         /\ cache' = s.cache
         /\ settleOrder' = settledNow(i, s.task)
  /\ UNCHANGED taskFrame

LocalReturns(i, kind, r) ==
  /\ inBatch(i)
  /\ task[i].st = "local"
  /\ LET s == onLocal(task[i], kind, r, cache, now)
     IN  /\ task' = [task EXCEPT ![i] = s.task]
         /\ cache' = s.cache
         /\ settleOrder' = settledNow(i, s.task)
  /\ UNCHANGED taskFrame

LocalInCatchReturns(i, kind, r) ==
  /\ inBatch(i)
  /\ task[i].st = "localCatch"
  /\ LET t == onLocalInCatch(task[i], kind, r)
     IN  /\ task' = [task EXCEPT ![i] = t]
         /\ settleOrder' = settledNow(i, t)
  /\ UNCHANGED cache
  /\ UNCHANGED taskFrame

AnalyzeReturns(i, ok) ==
  /\ inBatch(i)
  /\ task[i].st = "analyze"
  /\ LET t == onAnalyzed(task[i], limitedFiles[i], ok)
     IN  /\ task' = [task EXCEPT ![i] = t]
         /\ settleOrder' = settledNow(i, t)
  /\ UNCHANGED cache
  /\ UNCHANGED taskFrame

\* The two knowledge bases are seen from getRelevantContext, which awaits
\* them: each await ends with a result, with null, or with an exception.
\* DifyService.queryKnowledgeBase and LocalRAGService.search as written log
\* their own failures and return null, so the "raise" outcomes are those of
\* any replacement of the two services that getRelevantContext's try/catch
\* blocks are written for; they add behaviours and remove none
RemoteResult == \E i \in 1..Len(task) : \E r \in RemoteResults : RemoteReturns(i, "result", r)
RemoteNull == \E i \in 1..Len(task) : RemoteReturns(i, "null", NULL)
RemoteRaise == \E i \in 1..Len(task) : RemoteReturns(i, "raise", NULL)

LocalResult == \E i \in 1..Len(task) : \E r \in LocalResults : LocalReturns(i, "result", r)
LocalNull == \E i \in 1..Len(task) : LocalReturns(i, "null", NULL)
LocalRaise == \E i \in 1..Len(task) : LocalReturns(i, "raise", NULL)

LocalInCatchResult ==
  \E i \in 1..Len(task) : \E r \in LocalResults : LocalInCatchReturns(i, "result", r)
LocalInCatchNull == \E i \in 1..Len(task) : LocalInCatchReturns(i, "null", NULL)
LocalInCatchRaise == \E i \in 1..Len(task) : LocalInCatchReturns(i, "raise", NULL)

AnalyzeOk == \E i \in 1..Len(task) : AnalyzeReturns(i, TRUE)
AnalyzeFail == \E i \in 1..Len(task) : AnalyzeReturns(i, FALSE)

\* Promise.allSettled resolved: fold the batch, then start the next batch or
\* return the results to reviewMergeRequest, which calls publishReview
BatchSettled ==
  /\ pc = "batch"
  /\ LET n == Len(limitedFiles)
         last == batchLast(batchStart, n)
         folded == collect(results, task, foldOrder(batchStart, last, settleOrder))
         next == batchStart + concurrency
         nextLast == batchLast(next, n)
         started == startBatch(limitedFiles, next, nextLast, task, cache)
     IN  /\ awaitBatch(SubSeq(task, batchStart, last)) = "resolved"
         /\ results' = folded
         /\ batchStart' = next
         /\ IF next <= n
              THEN /\ task' = started.task
                   /\ cache' = started.cache
                   /\ batches' = Append(batches, <<next, nextLast>>)
                   /\ settleOrder' = <<>>
                   /\ pc' = "batch"
              ELSE /\ pc' = "postReview"
                   /\ UNCHANGED << task, cache, batches, settleOrder >>
  /\ UNCHANGED << config, aside, changeList, now, changeCount, filesToReview, posts, statuses, emoji,
                  failure, ret >>

PostReviewOk ==
  /\ pc = "postReview"
  /\ posts' = Append(posts, [comment |-> reviewComment(results), ok |-> TRUE])
  /\ pc' = "setSuccess"
  /\ UNCHANGED << config, aside, changeList, now, cache, changeCount, filesToReview, batchStart, task,
                  settleOrder, batches, results, statuses, emoji, failure, ret >>

PostReviewFail ==
  /\ pc = "postReview"
  /\ posts' = Append(posts, [comment |-> reviewComment(results), ok |-> FALSE])
  /\ enterCatch("addMergeRequestComment")
  /\ UNCHANGED << config, aside, changeList, now, cache, changeCount, filesToReview, batchStart, task,
                  settleOrder, batches, results, statuses, emoji, ret >>

SetSuccessOk ==
  /\ pc = "setSuccess"
  /\ statuses' = Append(statuses, statusCall("success", [analyzed |-> Len(results)], TRUE))
  /\ pc' = "emoji"
  /\ UNCHANGED << config, aside, changeList, now, cache, changeCount, filesToReview, batchStart, task,
                  settleOrder, batches, results, posts, emoji, failure, ret >>

SetSuccessFail ==
  /\ pc = "setSuccess"
  /\ statuses' = Append(statuses, statusCall("success", [analyzed |-> Len(results)], FALSE))
  /\ enterCatch("updateCommitStatus")
  /\ UNCHANGED << config, aside, changeList, now, cache, changeCount, filesToReview, batchStart, task,
                  settleOrder, batches, results, posts, emoji, ret >>

\* Faulty variant of EmojiReturns: a failure of addEmoji reaches the catch block
EmojiReturnsUncaught(ok) ==
  /\ pc = "emoji"
  /\ emoji' = IF ok THEN "ok" ELSE "failed"
  /\ IF ok
       THEN /\ ret' = [success |-> TRUE, filesReviewed |-> Len(results)]
            /\ pc' = "done"
            /\ UNCHANGED failure
       ELSE /\ enterCatch("addEmoji")
            /\ UNCHANGED ret
  /\ UNCHANGED << config, aside, changeList, now, cache, changeCount, filesToReview, batchStart,
                  task, settleOrder, batches, results, posts, statuses >>

\* addEmoji swallows its own failure
EmojiReturns(ok) ==
  /\ pc = "emoji"
  /\ emoji' = IF ok THEN "ok" ELSE "failed"
  /\ ret' = [success |-> TRUE, filesReviewed |-> Len(results)]
  /\ pc' = "done"
  /\ UNCHANGED << config, aside, changeList, now, cache, changeCount, filesToReview, batchStart, task,
                  settleOrder, batches, results, posts, statuses, failure >>

EmojiOk == EmojiReturns(TRUE)
EmojiFail == EmojiReturns(FALSE)

\* catch block: getMergeRequest, then updateCommitStatus('failed'); a failure
\* of either is logged; ReviewError is thrown in every case
CatchGetMROk ==
  /\ pc = "catchGetMR"
  /\ pc' = "catchSetFailed"
  /\ UNCHANGED << config, aside, changeList, now, cache, changeCount, filesToReview, batchStart, task,
                  settleOrder, batches, results, posts, statuses, emoji, failure, ret >>

\* A catch block whose own failure escapes in place of the original error
CatchGetMRFailEscapes ==
  /\ pc = "catchGetMR"
  /\ ret' = [threw |-> "GitLabAPIError", cause |-> "getMergeRequest (catch block)"]
  /\ pc' = "threw"
  /\ UNCHANGED << config, aside, changeList, now, cache, changeCount, filesToReview, batchStart, task,
                  settleOrder, batches, results, posts, statuses, emoji, failure >>

CatchGetMRFail ==
  /\ pc = "catchGetMR"
  /\ ret' = [threw |-> "ReviewError", cause |-> failure]
  /\ pc' = "threw"
  /\ UNCHANGED << config, aside, changeList, now, cache, changeCount, filesToReview, batchStart, task,
                  settleOrder, batches, results, posts, statuses, emoji, failure >>

CatchSetFailedReturns(ok) ==
  /\ pc = "catchSetFailed"
  /\ statuses' = Append(statuses, statusCall("failed", NULL, ok))
  /\ ret' = [threw |-> "ReviewError", cause |-> failure]
  /\ pc' = "threw"
  /\ UNCHANGED << config, aside, changeList, now, cache, changeCount, filesToReview, batchStart, task,
                  settleOrder, batches, results, posts, emoji, failure >>

CatchSetFailedOk == CatchSetFailedReturns(TRUE)
CatchSetFailedFail == CatchSetFailedReturns(FALSE)

\* Time passes. The clock is read by the cache alone, and the cache is used
\* only by the calls of a batch, so time is let pass while a batch is in flight.
\* Every outbound call of a batch is cut off after 60 s (DifyService client
\* timeout) and one invocation dispatches at most maxFilesPerReview files, so
\* within one invocation no entry written by it can reach cacheExpiry: Spec
\* keeps the clock still, SpecTimed lets it run.
TickMs == cacheExpiry + 1

Tick ==
  /\ pc = "batch"
  /\ now < MaxTicks * TickMs
  /\ now' = now + TickMs
  /\ UNCHANGED << config, aside, changeList, cache, pc, changeCount, filesToReview, batchStart, task,
                  settleOrder, batches, results, posts, statuses, emoji, failure, ret >>

Next ==
  \/ GetMergeRequestOk \/ GetMergeRequestFail
  \/ SetRunningOk \/ SetRunningFail
  \/ GetChangesOk \/ GetChangesFail
  \/ PostEmptyOk \/ PostEmptyFail
  \/ RemoteResult \/ RemoteNull \/ RemoteRaise
  \/ LocalResult \/ LocalNull \/ LocalRaise
  \/ LocalInCatchResult \/ LocalInCatchNull \/ LocalInCatchRaise
  \/ AnalyzeOk \/ AnalyzeFail
  \/ BatchSettled
  \/ PostReviewOk \/ PostReviewFail
  \/ SetSuccessOk \/ SetSuccessFail
  \/ EmojiOk \/ EmojiFail
  \/ CatchGetMROk \/ CatchGetMRFail
  \/ CatchSetFailedOk \/ CatchSetFailedFail

Spec == Init /\ [][Next]_vars

NextTimed == Next \/ Tick

SpecTimed == Init /\ [][NextTimed]_vars

\* ------------------------------------------------------------------------
\* Observations used by the properties
\* ------------------------------------------------------------------------
\* reviewFilesWithConcurrency has returned
dispatchReturned == Len(limitedFiles) > 0 /\ batchStart > Len(limitedFiles)

\* The files whose analysis was attempted in this invocation
attempted == {i \in 1..Len(task) : task[i].st # "idle"}

analysisFailed(i) == task[i].settled # "pending" /\ task[i].analysis # "ok"
analysisSucceeded(i) == task[i].analysis = "ok"

\* analyzeCode calls started and not yet settled
inFlight == {i \in 1..Len(task) : task[i].analysis = "pending"}

\* The state of the last commit status that was set
statesSet == SelectSeq(statuses, LAMBDA s : s.ok)
commitStatus == IF statesSet = <<>> THEN "none" ELSE statesSet[Len(statesSet)].state

\* The comment that was published
published == SelectSeq(posts, LAMBDA p : p.ok)

\* The overall status the invocation reports: a thrown ReviewError is a
\* failure, a return with no file reviewed is the empty notice, any other
\* return is { success: true }
overallStatus ==
  IF pc = "threw" THEN "failed"
  ELSE IF pc = "done" THEN (IF ret.filesReviewed = 0 THEN "empty" ELSE "success")
  ELSE "running"

hasReview(o) == "review" \in DOMAIN o /\ o.review # NULL
hasError(o) == "error" \in DOMAIN o /\ o.error # NULL

indexOfFile(path) == CHOOSE i \in 1..Len(limitedFiles) : limitedFiles[i].new_path = path

ascending(s) == \A a, b \in 1..Len(s) : a < b => s[a] < s[b]

\* ------------------------------------------------------------------------
\* Properties
\* ------------------------------------------------------------------------
\* C1: reviewFilesWithConcurrency returns exactly one outcome per input file,
\* and each outcome carries either a review text or an error, never both and
\* never neither.
C1_OneOutcomePerFile ==
  dispatchReturned =>
    /\ Len(results) = Len(limitedFiles)
    /\ \A i \in 1..Len(results) :
         /\ results[i].file = limitedFiles[i].new_path
         /\ hasReview(results[i]) # hasError(results[i])

\* C2: when at least one dispatched file's analysis failed and at least one
\* succeeded, the run is reported as partial and the published report names
\* the failed files, instead of showing only the successes under success.
C2_PartialFailureReported ==
  ( /\ pc = "done"
    /\ \E i \in attempted : analysisFailed(i)
    /\ \E i \in attempted : analysisSucceeded(i) )
  =>
    /\ overallStatus = "partial"
    /\ commitStatus # "success"
    /\ \A i \in attempted :
         analysisFailed(i) =>
           \E p \in 1..Len(published) :
             /\ published[p].comment.kind = "review"
             /\ \E s \in 1..Len(published[p].comment.sections) :
                  published[p].comment.sections[s].file = limitedFiles[i].new_path

\* C3: the overall status reported after dispatch is failed exactly when at
\* least one file was attempted and every attempted analysis errored, and is
\* empty exactly when no file was attempted.
C3_FailedAndEmptyStatus ==
  pc = "done" =>
    /\ (overallStatus = "failed" \/ commitStatus = "failed")
         <=> (attempted # {} /\ \A i \in attempted : analysisFailed(i))
    /\ (overallStatus = "empty") <=> (attempted = {})

\* C4: an invocation that set the commit status to running and returned
\* without throwing has set it to success or failed afterwards, also when no
\* changed file was eligible.
C4_RunningIsFollowedByFinalStatus ==
  pc = "done" =>
    \A k \in 1..Len(statuses) :
      (statuses[k].state = "running" /\ statuses[k].ok) =>
        \E j \in (k + 1)..Len(statuses) :
          statuses[j].ok /\ statuses[j].state \in {"success", "failed"}

\* C5: a failure of one file's analysis (or of its context retrieval) never
\* keeps the analysis of another file, of the same or a later batch, from
\* being issued and completed, and never makes the dispatch reject: while a
\* batch is awaited some call of it can still settle or the batch is folded,
\* and when the dispatch returns every file's analysis has settled.
C5_FailureIsolation ==
  /\ failure # "reviewFilesWithConcurrency"
  /\ pc = "batch" =>
       LET last == batchLast(batchStart, Len(limitedFiles))
       IN  \/ \E i \in batchStart..last : task[i].settled = "pending"
           \/ \A i \in batchStart..last : task[i].st = "done"
  /\ dispatchReturned =>
       \A i \in 1..Len(limitedFiles) : task[i].analysis \in {"ok", "failed"}

C5_Witness ==
  /\ dispatchReturned
  /\ Len(limitedFiles) = 4
  /\ task[1].analysis = "failed"
  /\ task[2].analysis = "ok"
  /\ task[4].analysis = "ok"

\* C6: at every moment the number of analyzeCode calls started and not yet
\* settled is at most 3.
C6_AtMostThreeInFlight == Cardinality(inFlight) <= 3

C6_Witness == Cardinality(inFlight) = 3 /\ Len(limitedFiles) = 4

\* C7: N files are dispatched in exactly ceil(N / 3) batches of consecutive
\* files, each of size 3 except possibly the last, and no call of a batch is
\* started before every call of the batch before it has settled.
C7_SequentialBatches ==
  LET n == Len(limitedFiles)
      size(k) == batches[k][2] - batches[k][1] + 1
  IN  /\ \A k \in 1..Len(batches) :
           /\ batches[k][1] = 3 * (k - 1) + 1
           /\ size(k) = IF 3 * k <= n THEN 3 ELSE n - 3 * (k - 1)
           /\ size(k) >= 1
      /\ dispatchReturned => Len(batches) = (n + 2) \div 3
      /\ \A k \in 1..Len(batches) : \A i \in batches[k][1]..batches[k][2] :
           task[i].st # "idle" =>
             \A j \in 1..(batches[k][1] - 1) : task[j].settled # "pending"
      /\ \A i \in 1..Len(task) :
           task[i].st # "idle" => \E k \in 1..Len(batches) :
                                    i \in batches[k][1]..batches[k][2]

C7_Witness ==
  /\ dispatchReturned
  /\ batches = << <<1, 3>>, <<4, 4>> >>
  /\ \E i \in 1..3 : task[i].analysis = "failed"

\* C8: the outcomes returned by reviewFilesWithConcurrency are in the relative
\* order of their files in the input, whatever the order in which the calls
\* of a batch settled.
C8_OutcomesInInputOrder ==
  \A a, b \in 1..Len(results) :
    a < b => indexOfFile(results[a].file) < indexOfFile(results[b].file)

C8_Witness ==
  /\ dispatchReturned
  /\ Len(results) >= 2
  /\ ~ascending(settleOrder)

\* C9: getRelevantContext never rejects: whatever the remote query and the
\* local search do, it resolves, to a context result or to null.
C9_RetrievalNeverRejects ==
  \A i \in 1..Len(task) :
    /\ task[i].ctxStatus # "rejected"
    /\ (task[i].st = "analyze" /\ task[i].ctxStatus = "resolved") =>
         task[i].ragContext \in RemoteResults \cup LocalResults \cup {NULL}

C9_Witness ==
  \E i \in 1..Len(task) :
    /\ task[i].st = "analyze"
    /\ task[i].remoteOutcome = "raise"
    /\ task[i].localOutcome = "raise"
    /\ task[i].ctxStatus = "resolved"
    /\ task[i].ragContext = NULL

\* C10: within one retrieval the local knowledge base is searched only after
\* the remote query has returned null or raised, never on a cache hit and
\* never after a remote success; the remote is queried at most once, and
\* before any local search.
C10_LocalOnlyAfterRemoteMiss ==
  \A i \in 1..Len(task) :
    /\ task[i].remoteCalls <= 1
    /\ task[i].localCalls > 0 =>
         /\ task[i].remoteCalls = 1
         /\ task[i].remoteOutcome \in {"null", "raise"}
         /\ ~task[i].hit
    /\ task[i].hit => task[i].remoteCalls = 0 /\ task[i].localCalls = 0
    /\ task[i].remoteOutcome = "result" => task[i].localCalls = 0
    /\ task[i].st \in {"local", "localCatch"} => task[i].remoteOutcome # "none"

C10_Witness ==
  \E i \in 1..Len(task) :
    /\ task[i].st = "analyze"
    /\ task[i].localCalls = 1
    /\ task[i].remoteOutcome = "null"
    /\ task[i].localOutcome = "result"
    /\ task[i].ragContext \in LocalResults

\* C11: two retrievals with the same cache key made within the expiry window
\* cause at most one remote call between them, however they interleave, two
\* files of one batch included: of two retrievals in progress under one key,
\* at most one has queried the remote knowledge base.
C11_SameKeyOneRemoteCall ==
  \A i, j \in 1..Len(task) :
    ( /\ i # j
      /\ task[i].cacheKey # <<>>
      /\ task[i].cacheKey = task[j].cacheKey )
    => task[i].remoteCalls + task[j].remoteCalls <= 1

MaxKeys == 105
AgeKeys == 3

getCacheStats(c) == [size |-> Len(c), maxSize |-> 100, expiryMs |-> cacheExpiry]

cacheKeys(c) == {c[i].key : i \in 1..Len(c)}

newKey(c) ==
  IF c = <<>> THEN 1
  ELSE 1 + (CHOOSE k \in cacheKeys(c) : \A other \in cacheKeys(c) : other <= k)

\* The data stored plays no part in the bookkeeping of the cache
storedResult == CHOOSE r \in RemoteResults : Len(r.sources) > 0

cacheFrame ==
  << config, aside, changeList, pc, changeCount, filesToReview, batchStart, task,
     settleOrder, batches, results, posts, statuses, emoji, failure, ret >>

InitCache ==
  /\ Init
  /\ config = [ragEnabled |-> TRUE, maxFilesPerReview |-> DefaultMaxFilesPerReview]

\* A retrieval under a key the cache does not hold got a result: setCache
CacheStoreNew(limit) ==
  /\ newKey(cache) <= limit
  /\ cache' = setCache(cache, newKey(cache), storedResult, now)
  /\ UNCHANGED now
  /\ UNCHANGED cacheFrame

\* A retrieval under a key held got a result (its lookup was made
\* before the entry was written, or the entry is read as expired): setCache
CacheStoreHeld(key) ==
  /\ cacheHas(cache, key)
  /\ cache' = setCache(cache, key, storedResult, now)
  /\ UNCHANGED now
  /\ UNCHANGED cacheFrame

CacheStoreAgain == cache # <<>> /\ CacheStoreHeld(cache[Len(cache)].key)

CacheFill == CacheStoreNew(MaxKeys)

NextCacheFill == CacheFill \/ CacheStoreAgain

SpecCacheFill == InitCache /\ [][NextCacheFill]_vars

\* C13: the cache never holds more entries than the maximum entry count
\* that getCacheStats reports (100).
C13_CacheWithinMaxSize == Len(cache) <= getCacheStats(cache).maxSize

\* The cache as time passes: a few keys, a clock that moves by one
\* millisecond or by the expiry time, and lookups
ClockSteps == {1, cacheExpiry}

\* The instants looked at: at most MaxTicks steps of either length
ClockValues == {k * cacheExpiry + j : k \in 0..MaxTicks, j \in 0..MaxTicks}

CacheClock ==
  /\ \E d \in ClockSteps :
       /\ now + d \in ClockValues
       /\ now' = now + d
  /\ UNCHANGED cache
  /\ UNCHANGED cacheFrame

\* getFromCache(key) as the first step of a retrieval
lookupFrame ==
  << config, aside, changeList, pc, changeCount, filesToReview, batchStart,
     settleOrder, batches, results, posts, statuses, emoji, failure, ret >>

CacheLookup ==
  /\ \E key \in 1..AgeKeys :
       LET looked == lookupContext(key, cache, now)
       IN  /\ cache' = looked.cache
           /\ task' = << looked.task >>
  /\ UNCHANGED now
  /\ UNCHANGED lookupFrame

CacheStoreFew == CacheStoreNew(AgeKeys)

CacheStoreAny == \E key \in 1..AgeKeys : CacheStoreHeld(key)

NextCacheAge == CacheStoreFew \/ CacheStoreAny \/ CacheClock \/ CacheLookup

SpecCacheAge == InitCache /\ [][NextCacheAge]_vars

age(c, key, t) == t - cacheGet(c, key).timestamp

\* C14: a lookup never returns an entry older than the expiry time (3600000
\* ms): the lookup that finds an entry expired misses and removes it; and an
\* entry leaves the cache for its age by such a lookup only (the one other
\* removal is setCache's, for size).
C14_NoStaleEntryReturned ==
  /\ [](\A key \in 1..AgeKeys :
          /\ getFromCache(cache, key, now) # NULL =>
                cacheHas(cache, key) /\ age(cache, key, now) <= cacheExpiry
          /\ (cacheHas(cache, key) /\ age(cache, key, now) > cacheExpiry) =>
                /\ getFromCache(cache, key, now) = NULL
                /\ ~cacheHas(cacheAfterGet(cache, key, now), key))
  /\ [][ \A key \in 1..AgeKeys :
            (cacheHas(cache, key) /\ ~cacheHas(cache', key)) =>
              \/ now' = now /\ age(cache, key, now) > cacheExpiry
              \/ Len(cache) > cacheLimit ]_vars

C14_Witness ==
  /\ Len(cache) = 1
  /\ cache[1].key = 2
  /\ now - cache[1].timestamp > cacheExpiry

C16_RejectsOnlyOnSourceControlFailure ==
  /\ failure \in {"none", "getMergeRequest", "getMergeRequestChanges",
                  "updateCommitStatus", "addMergeRequestComment"}
  /\ pc \in {"catchGetMR", "catchSetFailed", "threw"} <=> failure # "none"
  /\ failure = "updateCommitStatus" =>
       \E k \in 1..Len(statuses) :
         ~statuses[k].ok /\ statuses[k].state \in {"running", "success"}
  /\ failure = "addMergeRequestComment" => ~posts[Len(posts)].ok
  /\ failure \in {"getMergeRequest", "getMergeRequestChanges"} => task = <<>>
  /\ pc = "threw" => ret = [threw |-> "ReviewError", cause |-> failure]

C16_Witness ==
  /\ pc = "done"
  /\ Len(limitedFiles) = 2
  /\ task[1].analysis = "failed" /\ task[1].ctxStatus = "resolved"
  /\ task[2].analysis = "failed"

\* C17: one invocation of reviewMergeRequest calls addMergeRequestComment at
\* most once; an invocation that returned without throwing made exactly one
\* call, which succeeded; and no call follows a failed one.
C17_CommentPostedOnce ==
  /\ Len(posts) <= 1
  /\ pc = "done" => (Len(posts) = 1 /\ posts[1].ok)
  /\ \A k \in 1..Len(posts) : ~posts[k].ok => k = Len(posts)

C17_Witness ==
  /\ pc = "threw"
  /\ failure = "addMergeRequestComment"
  /\ Len(posts) = 1
  /\ posts[1].comment.kind = "review"
  /\ ~posts[1].ok

\* C18: analysis and context retrieval are called for files that pass the
\* classification only; when no changed file passes it, the invocation calls
\* neither and the cache is left as it was.
C18_NoCallWithoutEligibleFile ==
  /\ \A i \in 1..Len(task) : task[i].st # "idle" => Classified[limitedFiles[i]]
  /\ filesToReview = <<>> => (task = <<>> /\ cache = <<>> /\ results = <<>>)

C18_Witness ==
  /\ pc = "done"
  /\ changeCount = 2
  /\ filesToReview = <<>>
  /\ task = <<>>
  /\ Len(posts) = 1 /\ posts[1].comment = emptyComment

\* ------------------------------------------------------------------------
\* The classification on its own: filterFilesToReview applied to a change
\* list
\* ------------------------------------------------------------------------
MaxChanges == 2

ChangeLists ==
  {s \in SeqsOver(FileUniverse \cup EdgeFiles, MaxChanges) :
     \A i, j \in 1..Len(s) : i # j => s[i] # s[j]}

classifyFrame ==
  << config, aside, now, cache, changeCount, batchStart, task, settleOrder, batches,
     results, posts, statuses, emoji, failure, ret >>

ReceiveChanges ==
  /\ pc = "getMR"
  /\ \E changes \in ChangeLists : changeList' = changes
  /\ pc' = "classify"
  /\ UNCHANGED filesToReview
  /\ UNCHANGED classifyFrame

ClassifyChanges ==
  /\ pc = "classify"
  /\ filesToReview' = filterFilesToReview(changeList)
  /\ pc' = "classified"
  /\ UNCHANGED changeList
  /\ UNCHANGED classifyFrame

NextClassify == ReceiveChanges \/ ClassifyChanges

SpecClassify == InitCache /\ [][NextClassify]_vars

\* C19: filterFilesToReview keeps a change exactly when it is not a
\* deletion, its path matches no skip pattern, its diff is not longer than
\* maxDiffSize and the extension of its file name (the text after the last
\* dot of the name, if the name has a dot) is not a binary extension; the
\* changes kept are in their original order.
C19_KeptIffEligible ==
  pc = "classified" =>
    filesToReview =
      SelectSeq(changeList,
        LAMBDA change :
          LET name == splitPop(change.new_path, "/")
          IN  /\ ~change.deleted_file
              /\ ~shouldSkip(change.new_path)
              /\ diffLength(change.diff) <= maxDiffSize
              /\ ~( /\ includes(name, <<".">>)
                    /\ toLowerCase(splitPop(name, ".")) \in binaryExtensions ))

\* C20: a skip pattern with a `*` excludes a path exactly when the path holds
\* the text before the `*` followed, at any distance, by the text after it,
\* every character of the pattern other than the `*` standing for itself; a
\* pattern without `*` excludes a path exactly when the path contains it.
C20_StarIsTheOnlyWildcard ==
  pc = "classified" =>
    \A i \in 1..Len(changeList) : \A k \in 1..Len(skipPatterns) :
      LET path == changeList[i].new_path
          pattern == skipPatterns[k]
          star == CHOOSE p \in 1..(Len(pattern) + 1) :
                    p = Len(pattern) + 1 \/ pattern[p] = "*"
          before == SubSeq(pattern, 1, star - 1)
          after == SubSeq(pattern, star + 1, Len(pattern))
      IN  matchesSkipPattern(pattern, path) <=>
            IF star <= Len(pattern)
              THEN \E p \in 1..(Len(path) + 1) : \E q \in (p + Len(before))..(Len(path) + 1) :
                     StartsAt(path, before, p) /\ StartsAt(path, after, q)
              ELSE includes(path, pattern)

\* ------------------------------------------------------------------------
\* C21: at most maxFilesPerReview files are handed to reviewFile in one
\* invocation, and they are the first maxFilesPerReview eligible files in the
\* order of the change set: call i is for the i-th eligible file, every call's
\* outcome names that file, and once the dispatch has returned every file
\* under the cap was attempted while no eligible file beyond it has a call.
\* ------------------------------------------------------------------------
C21_FirstEligibleFilesUpToCap ==
  /\ Len(task) <= config.maxFilesPerReview
  /\ Len(task) <= Len(filesToReview)
  /\ attempted \subseteq 1..min(Len(filesToReview), config.maxFilesPerReview)
  /\ \A i \in 1..Len(task) :
       task[i].value # NULL => task[i].value.file = filesToReview[i].new_path
  /\ dispatchReturned =>
       attempted = 1..min(Len(filesToReview), config.maxFilesPerReview)

C21_Witness ==
  /\ dispatchReturned
  /\ Len(filesToReview) > config.maxFilesPerReview
  /\ Len(task) = config.maxFilesPerReview
  /\ \A i \in 1..Len(task) : task[i].analysis = "ok"

\* ------------------------------------------------------------------------
\* C22: the counts the pipeline reports add up to the change set: the total
\* in the published report is the number of files of the merge request's
\* change set, so that the eligible files and the files left out (by the
\* classification or by the file cap) together make up that total.
\* ------------------------------------------------------------------------
C22_ReportedTotalIsTotalChanged ==
  \A k \in 1..Len(posts) :
    posts[k].comment.kind = "review" =>
      /\ posts[k].comment.totalFiles = changeCount
      /\ posts[k].comment.reviewedFiles <= posts[k].comment.totalFiles

\* ------------------------------------------------------------------------
\* C23: when the overall pipeline timeout elapses during dispatch, the batch
\* in flight finishes and no further batch is started. SpecTimed lets the
\* clock pass TickMs (over an hour, longer than any timeout of a review)
\* while a batch is in flight; from then on the list of issued batches stays
\* as it is.
\* ------------------------------------------------------------------------
\* Date.now() - startTime, the invocation having begun at time 0
duration == now

C23_NoBatchStartedAfterTimeout ==
  [][(pc = "batch" /\ duration >= TickMs) => batches' = batches]_vars

\* ------------------------------------------------------------------------
\* C24: reviewFile asks for context for a file exactly when RAG is enabled
\* and isFrontendFile holds of its path. Every other file goes to the
\* analysis with no context and no retrieval call of either tier, and its
\* outcome says hasBestPractices false and lists no sources.
\* ------------------------------------------------------------------------
wantsContext(i) == config.ragEnabled /\ Frontend[limitedFiles[i]]

C24_ContextOnlyForFrontendFiles ==
  \A i \in 1..Len(task) :
    task[i].st # "idle" =>
      /\ (task[i].ctxStatus # "none") <=> wantsContext(i)
      /\ ~wantsContext(i) =>
           /\ task[i].ragContext = NULL
           /\ task[i].remoteCalls = 0 /\ task[i].localCalls = 0
           /\ task[i].analysis # "none"
           /\ task[i].value # NULL =>
                /\ ~task[i].value.hasBestPractices
                /\ task[i].value.ragSources = <<>>

C24_Witness ==
  \E i, j \in 1..Len(task) :
    /\ wantsContext(i) /\ task[i].ctxStatus = "resolved"
    /\ config.ragEnabled /\ ~Frontend[limitedFiles[j]]
    /\ task[j].value # NULL /\ ~task[j].value.hasBestPractices

\* ------------------------------------------------------------------------
\* RAGService.buildKnowledgeQuery on its own: one call, for a file path and
\* a diff that shows any combination of the eight signals of extractPatterns
\* ------------------------------------------------------------------------
\* The variables of one invocation of reviewMergeRequest
reviewFrame ==
  << config, changeList, now, cache, pc, changeCount, filesToReview, batchStart, task,
     settleOrder, batches, results, posts, statuses, emoji, failure, ret >>

\* One idiom per signal of extractPatterns, each matched by that signal's
\* pattern alone
QueryTokens ==
  << <<"r", "e", "d", "u", "x">>, <<"a", "w", "a", "i", "t">>, <<"a", "x", "i", "o", "s">>, <<"a", "l", "t", "=">>, <<"m", "e", "m", "o", "(">>, <<"t", "o", "k", "e", "n">>, <<"i", "t", "(">>, <<"t", "r", "y">> >>

\* The diff made of the idioms numbered in S, one per line
diffShowing(S) ==
  LET line(k) == IF k \in S THEN QueryTokens[k] \o <<"\n">> ELSE <<>>
  IN  [ text |-> line(1) \o line(2) \o line(3) \o line(4)
                   \o line(5) \o line(6) \o line(7) \o line(8),
        pad |-> 0 ]

QueryDiffs == { diffShowing(S) : S \in SUBSET (DOMAIN QueryTokens) }

QueryPaths == { <<"u", "i", "/", "a", ".", "j", "s", "x">>, <<"b", ".", "p", "y">> }

queryFrame ==
  << webhookSecret, requests, responses, reviewCalls, logged, retryRun, chunkRun, searchCall >>

QueryCalled ==
  /\ queryCall = NULL
  /\ \E p \in QueryPaths, d \in QueryDiffs :
       queryCall' = [filePath |-> p, diff |-> d, patterns |-> NULL, result |-> NULL]
  /\ UNCHANGED queryFrame
  /\ UNCHANGED reviewFrame

QueryBuilt ==
  /\ queryCall # NULL
  /\ queryCall.result = NULL
  /\ queryCall' =
       [queryCall EXCEPT
          !.patterns = extractPatterns(queryCall.diff),
          !.result = Text(buildKnowledgeQuery(queryCall.filePath, queryCall.diff))]
  /\ UNCHANGED queryFrame
  /\ UNCHANGED reviewFrame

NextQuery == QueryCalled \/ QueryBuilt

SpecQuery == InitCache /\ [][NextQuery]_vars

\* C25: for each of the eight signals of extractPatterns the query holds
\* that signal's phrase exactly when the signal is present in the diff: the
\* five phrases buildKnowledgeQuery knows appear exactly with their signals,
\* and, every present signal adding a phrase, the query is the bare "Best
\* practices for <file>" exactly when the diff shows no signal at all.
C25_PhrasePerSignal ==
  (queryCall # NULL /\ queryCall.result # NULL) =>
    LET q == queryCall.result.text
        s == queryCall.patterns
        bare == <<"B", "e", "s", "t", " ", "p", "r", "a", "c", "t", "i", "c", "e", "s", " ", "f", "o", "r", " ">> \o splitPop(queryCall.filePath, "/")
    IN  /\ s.hasStateManagement <=> includes(q, <<" ", "w", "i", "t", "h", " ", "s", "t", "a", "t", "e", " ", "m", "a", "n", "a", "g", "e", "m", "e", "n", "t">>)
        /\ s.hasAsyncOperations <=> includes(q, <<" ", "a", "n", "d", " ", "a", "s", "y", "n", "c", " ", "o", "p", "e", "r", "a", "t", "i", "o", "n", "s">>)
        /\ s.hasAPIcalls <=> includes(q, <<" ", "a", "n", "d", " ", "A", "P", "I", " ", "i", "n", "t", "e", "g", "r", "a", "t", "i", "o", "n">>)
        /\ s.hasAccessibility <=> includes(q, <<" ", "f", "o", "c", "u", "s", "i", "n", "g", " ", "o", "n", " ", "a", "c", "c", "e", "s", "s", "i", "b", "i", "l", "i", "t", "y">>)
        /\ s.hasPerformance <=> includes(q, <<" ", "a", "n", "d", " ", "p", "e", "r", "f", "o", "r", "m", "a", "n", "c", "e", " ", "o", "p", "t", "i", "m", "i", "z", "a", "t", "i", "o", "n">>)
        /\ (q = bare) <=> (\A k \in DOMAIN s : ~s[k])

\* ------------------------------------------------------------------------
\* POST /webhook/gitlab: validateWebhook, WebhookController.handleGitLabWebhook
\* and the global error handler; the reviews the controller starts settle
\* later, in any order
\* ------------------------------------------------------------------------
MaxRequests == 2

Num(n) == [num |-> n]

\* GITLAB_WEBHOOK_SECRET: unset, or a string
WebhookSecrets == { NULL, Text("s3cret") }

\* The x-gitlab-token header: absent, the secret, or something else
Tokens == { NULL, Text("s3cret"), Text("other") }

mergeRequestEvent(action, iid, project) ==
  [ object_kind |-> Text("merge_request"),
    object_attributes |-> [action |-> action, iid |-> iid],
    project |-> project ]

\* req.body as express.json leaves it: an object, with or without the
\* fields the controller reads
WebhookEvents ==
  { [object_kind |-> Text("push"), object_attributes |-> NULL, project |-> [id |-> Num(5)]],
    [object_kind |-> Text("push"),
     object_attributes |-> [action |-> Text("open"), iid |-> Num(7)],
     project |-> [id |-> Num(5)]],
    [object_kind |-> Text("merge_request"), object_attributes |-> NULL,
     project |-> [id |-> Num(5)]] }
  \cup { mergeRequestEvent(a, i, p) :
           a \in { Text("open"), Text("update"), Text("reopen"), Text("close") },
           i \in { NULL, Num(7) },
           p \in { NULL, [id |-> Num(5)] } }

\* !value
falsy(value) == value = NULL \/ value = Text("")

\* object?.field
optional(object, field) == IF object = NULL THEN NULL ELSE object[field]

ValidationError(message) ==
  [name |-> "ValidationError", message |-> message, statusCode |-> 400]

\* A check that lets any token pass that is not missing
validateWebhookPresenceOnly(secret, token) ==
  IF falsy(secret) THEN [next |-> TRUE]
  ELSE IF falsy(token) THEN [threw |-> ValidationError("Missing webhook signature")]
  ELSE [next |-> TRUE]

validateWebhook(secret, token) ==
  IF falsy(secret) THEN [next |-> TRUE]
  ELSE IF falsy(token) THEN [threw |-> ValidationError("Missing webhook signature")]
  ELSE IF token # secret THEN [threw |-> ValidationError("Invalid webhook signature")]
  ELSE [next |-> TRUE]

\* errorHandler for an AppError: res.status(err.statusCode).json(...)
errorHandler(err) ==
  [status |-> err.statusCode, body |-> [success |-> FALSE, error |-> err.message]]

\* A controller that reviews on every merge-request action
handleGitLabWebhookAnyAction(event) ==
  LET projectId == optional(event.project, "id")
      mrIid == optional(event.object_attributes, "iid")
  IN  IF event.object_kind # Text("merge_request")
        THEN [ response |-> [status |-> 200,
                             body |-> [message |-> "Event type not supported"]],
               review |-> NULL ]
      ELSE IF falsy(projectId) \/ falsy(mrIid)
        THEN [ response |-> [status |-> 400,
                             body |-> [error |-> "Invalid webhook payload"]],
               review |-> NULL ]
      ELSE [ response |-> [status |-> 200,
                           body |-> [ success |-> TRUE, message |-> "Review started",
                                      projectId |-> projectId, mrIid |-> mrIid ]],
             review |-> [projectId |-> projectId, mrIid |-> mrIid] ]

\* handleGitLabWebhook: the response it sends and the review it starts, if any
handleGitLabWebhook(event) ==
  LET action == optional(event.object_attributes, "action")
      projectId == optional(event.project, "id")
      mrIid == optional(event.object_attributes, "iid")
  IN  IF event.object_kind # Text("merge_request")
        THEN [ response |-> [status |-> 200,
                             body |-> [message |-> "Event type not supported"]],
               review |-> NULL ]
      ELSE IF action \notin { Text("open"), Text("update"), Text("reopen") }
        THEN [ response |-> [status |-> 200,
                             body |-> [message |-> "MR action not relevant"]],
               review |-> NULL ]
      ELSE IF falsy(projectId) \/ falsy(mrIid)
        THEN [ response |-> [status |-> 400,
                             body |-> [error |-> "Invalid webhook payload"]],
               review |-> NULL ]
      ELSE [ response |-> [status |-> 200,
                           body |-> [ success |-> TRUE, message |-> "Review started",
                                      projectId |-> projectId, mrIid |-> mrIid ]],
             review |-> [projectId |-> projectId, mrIid |-> mrIid] ]

\* .then(() => logger.info(...)) on a review that resolved
onReviewResolved(call) ==
  [ chain |-> "fulfilled",
    entries |-> << [ level |-> "info", message |-> "Webhook review completed",
                     projectId |-> call.projectId, mrIid |-> call.mrIid ] >> ]

\* reviewMergeRequest(...).then(...) with no catch: the rejection goes on to
\* the promise nobody holds
onReviewRejectedUncaught(call) ==
  [chain |-> "rejected", entries |-> <<>>]

\* .catch((error) => logger.error(...)) on a review that rejected
onReviewRejected(call) ==
  [ chain |-> "fulfilled",
    entries |-> << [ level |-> "error", message |-> "Webhook review failed",
                     projectId |-> call.projectId, mrIid |-> call.mrIid ] >> ]

webhookFrame == << queryCall, retryRun, chunkRun, searchCall >>

InitWebhook ==
  /\ InitReview
  /\ config = [ragEnabled |-> TRUE, maxFilesPerReview |-> DefaultMaxFilesPerReview]
  /\ webhookSecret \in WebhookSecrets
  /\ InitAside

\* One request through the route: the middleware, then the controller up to
\* its response; a ValidationError thrown by the middleware goes to the
\* error handler
WebhookReceived ==
  /\ Len(requests) < MaxRequests
  /\ \E token \in Tokens, event \in WebhookEvents :
       LET n == Len(requests) + 1
           checked == validateWebhook(webhookSecret, token)
           handled == handleGitLabWebhook(event)
       IN  /\ requests' = Append(requests, [token |-> token, body |-> event])
           /\ IF "threw" \in DOMAIN checked
                THEN /\ responses' =
                          Append(responses,
                                 [request |-> n, sender |-> "errorHandler"]
                                   @@ errorHandler(checked.threw))
                     /\ UNCHANGED reviewCalls
                ELSE /\ responses' =
                          Append(responses,
                                 [request |-> n, sender |-> "controller"]
                                   @@ handled.response)
                     /\ reviewCalls' =
                          IF handled.review = NULL THEN reviewCalls
                          ELSE Append(reviewCalls,
                                      [ request |-> n,
                                        projectId |-> handled.review.projectId,
                                        mrIid |-> handled.review.mrIid,
                                        state |-> "pending", chain |-> "pending" ])
  /\ UNCHANGED << webhookSecret, logged >>
  /\ UNCHANGED webhookFrame
  /\ UNCHANGED reviewFrame

\* A review the controller started settles and the handler attached to it runs
ReviewSettles(k, state, handler) ==
  /\ reviewCalls[k].state = "pending"
  /\ reviewCalls' = [reviewCalls EXCEPT ![k].state = state, ![k].chain = handler.chain]
  /\ logged' = logged \o handler.entries
  /\ UNCHANGED << webhookSecret, requests, responses >>
  /\ UNCHANGED webhookFrame
  /\ UNCHANGED reviewFrame

ReviewResolves ==
  \E k \in 1..Len(reviewCalls) :
    ReviewSettles(k, "fulfilled", onReviewResolved(reviewCalls[k]))

ReviewRejects ==
  \E k \in 1..Len(reviewCalls) :
    ReviewSettles(k, "rejected", onReviewRejected(reviewCalls[k]))

NextWebhook == WebhookReceived \/ ReviewResolves \/ ReviewRejects

SpecWebhook == InitWebhook /\ [][NextWebhook]_vars

\* The responses sent for request n and the reviews started by it
responsesTo(n) == {r \in 1..Len(responses) : responses[r].request = n}
reviewsOf(n) == {k \in 1..Len(reviewCalls) : reviewCalls[k].request = n}

\* ------------------------------------------------------------------------
\* C26: for every merge-request webhook that starts a review, the success
\* response is there from the moment the review is started, while the review
\* is still pending. When the review settles later, nothing is sent and no
\* response changes; a rejection is caught and logged as "Webhook review
\* failed", and the promise chain never ends rejected (no unhandled
\* rejection).
\* ------------------------------------------------------------------------
successResponseOf(k) ==
  {r \in responsesTo(reviewCalls[k].request) :
     /\ responses[r].status = 200
     /\ responses[r].body =
          [ success |-> TRUE, message |-> "Review started",
            projectId |-> reviewCalls[k].projectId, mrIid |-> reviewCalls[k].mrIid ]}

failureLogged(k) ==
  \E e \in 1..Len(logged) :
    logged[e] = [ level |-> "error", message |-> "Webhook review failed",
                  projectId |-> reviewCalls[k].projectId,
                  mrIid |-> reviewCalls[k].mrIid ]

C26_RespondsBeforeReviewSettles ==
  /\ [](\A k \in 1..Len(reviewCalls) :
          /\ Cardinality(responsesTo(reviewCalls[k].request)) = 1
          /\ Cardinality(successResponseOf(k)) = 1
          /\ reviewCalls[k].chain # "rejected"
          /\ reviewCalls[k].state = "rejected" => failureLogged(k))
  /\ [][/\ \A r \in 1..Len(responses) :
             r <= Len(responses') /\ responses'[r] = responses[r]
        /\ (\E k \in 1..Len(reviewCalls) :
              reviewCalls[k].state = "pending" /\ reviewCalls'[k].state # "pending")
             => responses' = responses]_vars

C26_Witness ==
  \E k \in 1..Len(reviewCalls) :
    /\ reviewCalls[k].state = "rejected"
    /\ Cardinality(successResponseOf(k)) = 1
    /\ failureLogged(k)

\* ------------------------------------------------------------------------
\* C27: a webhook request that reaches the controller starts a review
\* exactly when its object_kind is merge_request, its action is open, update
\* or reopen, and both the project id and the merge-request iid are there;
\* it then starts exactly one review. Every webhook request, whether the
\* controller or the error handler answers it, gets exactly one response.
\* ------------------------------------------------------------------------
reachesController(n) ==
  \/ webhookSecret = NULL
  \/ requests[n].token = webhookSecret

isReviewable(event) ==
  /\ event.object_kind = Text("merge_request")
  /\ event.object_attributes # NULL
  /\ event.object_attributes.action \in { Text("open"), Text("update"), Text("reopen") }
  /\ event.object_attributes.iid # NULL
  /\ event.project # NULL
  /\ event.project.id # NULL

C28_NoReviewWithoutValidToken ==
  \A n \in 1..Len(requests) :
    (webhookSecret # NULL /\ requests[n].token # webhookSecret) =>
      /\ reviewsOf(n) = {}
      /\ \A r \in responsesTo(n) :
           /\ responses[r].sender = "errorHandler"
           /\ responses[r].status = 400
           /\ responses[r].body.success = FALSE

C28_Witness ==
  \E n, m \in 1..Len(requests) :
    /\ webhookSecret # NULL
    /\ requests[n].token = Text("other") /\ isReviewable(requests[n].body)
    /\ requests[m].token = NULL /\ isReviewable(requests[m].body)
    /\ reviewsOf(n) = {} /\ reviewsOf(m) = {}
    /\ Cardinality(responsesTo(n)) = 1 /\ Cardinality(responsesTo(m)) = 1

\* ------------------------------------------------------------------------
\* helpers.retry(fn, maxRetries, baseDelay): one call, one step per
\* resumption after an await; fn resolves or rejects each time it is invoked
\* ------------------------------------------------------------------------
MaxRetryLimit == 4

defaultBaseDelay == 1000

BaseDelays == { defaultBaseDelay, 1 }

\* What an invocation of fn can settle with
FnValues == { "v1", "v2" }
FnErrors == { "e1", "e2" }

\* A loop that makes one pass too many
loopContinuesOnceMore(i, maxRetries) == i <= maxRetries

\* i < maxRetries, the condition of the for loop
loopContinues(i, maxRetries) == i < maxRetries

\* The loop condition is tested: fn is invoked, or the loop is left and
\* lastError is thrown
enterLoop(r) ==
  IF loopContinues(r.i, r.maxRetries)
    THEN [r EXCEPT !.st = "calling", !.calls = @ + 1]
    ELSE [r EXCEPT !.st = "rejected", !.value = r.lastError]

\* i++ and the next test of the loop condition
nextIteration(r) == enterLoop([r EXCEPT !.i = @ + 1])

\* i < maxRetries - 1, the condition of the wait in the catch block
waitsBeforeNext(i, maxRetries) == i < maxRetries - 1

\* Faulty variant of delayMs: the wait grows linearly
delayMsLinear(baseDelay, i) == baseDelay * (i + 1)

\* const delayMs = baseDelay * 2 ** i
delayMs(baseDelay, i) == baseDelay * 2 ^ i

retryFrame ==
  << queryCall, webhookSecret, requests, responses, reviewCalls, logged, chunkRun, searchCall >>

RetryCalled ==
  /\ retryRun = NULL
  /\ \E m \in 0..MaxRetryLimit, b \in BaseDelays :
       retryRun' = enterLoop([ maxRetries |-> m, baseDelay |-> b, i |-> 0, calls |-> 0,
                               outcomes |-> <<>>, lastError |-> NULL, delays |-> <<>>,
                               st |-> "idle", value |-> NULL ])
  /\ UNCHANGED retryFrame
  /\ UNCHANGED reviewFrame

\* await fn() resolved: retry returns the value
FnResolves ==
  /\ retryRun # NULL
  /\ retryRun.st = "calling"
  /\ \E v \in FnValues :
       retryRun' = [retryRun EXCEPT !.st = "resolved", !.value = Text(v),
                                    !.outcomes = Append(@, [ok |-> TRUE, value |-> Text(v)])]
  /\ UNCHANGED retryFrame
  /\ UNCHANGED reviewFrame

\* await fn() rejected: the catch block keeps the error, then either waits
\* before the next pass or goes on to the loop condition at once
FnRejects ==
  /\ retryRun # NULL
  /\ retryRun.st = "calling"
  /\ \E e \in FnErrors :
       LET caught == [retryRun EXCEPT !.lastError = Text(e),
                                      !.outcomes = Append(@, [ok |-> FALSE, error |-> Text(e)])]
       IN  retryRun' =
             IF waitsBeforeNext(caught.i, caught.maxRetries)
               THEN [caught EXCEPT !.st = "delaying",
                                   !.delays = Append(@, delayMs(caught.baseDelay, caught.i))]
               ELSE nextIteration(caught)
  /\ UNCHANGED retryFrame
  /\ UNCHANGED reviewFrame

\* await delay(delayMs) resolved
DelayElapsed ==
  /\ retryRun # NULL
  /\ retryRun.st = "delaying"
  /\ retryRun' = nextIteration(retryRun)
  /\ UNCHANGED retryFrame
  /\ UNCHANGED reviewFrame

NextRetry == RetryCalled \/ FnResolves \/ FnRejects \/ DelayElapsed

SpecRetry == InitCache /\ [][NextRetry]_vars

failedInvocations(r) == {k \in 1..Len(r.outcomes) : ~r.outcomes[k].ok}

\* C29: retry(fn, maxRetries) with maxRetries >= 1 invokes fn at most
\* maxRetries times and only as long as every invocation so far failed. It
\* resolves with the value of the first invocation that succeeds, after
\* which fn is invoked no more, and when all maxRetries invocations failed
\* it rejects with the error of the last one.
C29_RetryUntilFirstSuccess ==
  /\ [](retryRun # NULL /\ retryRun.maxRetries >= 1 =>
          LET r == retryRun
              n == Len(r.outcomes)
          IN  /\ r.calls <= r.maxRetries
              /\ r.st \in {"calling", "delaying", "resolved", "rejected"}
              /\ r.st = "calling" => r.calls = n + 1 /\ failedInvocations(r) = 1..n
              /\ r.st = "delaying" => r.calls = n /\ failedInvocations(r) = 1..n
              /\ r.st = "resolved" =>
                   /\ r.calls = n
                   /\ failedInvocations(r) = 1..(n - 1)
                   /\ r.outcomes[n].ok /\ r.value = r.outcomes[n].value
              /\ r.st = "rejected" =>
                   /\ r.calls = r.maxRetries /\ n = r.maxRetries
                   /\ failedInvocations(r) = 1..n
                   /\ r.value = r.outcomes[n].error)
  /\ [][(retryRun # NULL /\ retryRun.st \in {"resolved", "rejected"}) =>
          retryRun' = retryRun]_vars

C29_Witness ==
  /\ retryRun # NULL
  /\ retryRun.maxRetries = 3
  /\ retryRun.st = "resolved"
  /\ retryRun.calls = 3
  /\ retryRun.outcomes[1].error # retryRun.outcomes[2].error

\* ------------------------------------------------------------------------
\* helpers.chunk(array, size): one call
\* ------------------------------------------------------------------------
MaxChunkLen == 4
MaxChunkSize == 3

ChunkArrays == SeqsOver({"a", "b"}, MaxChunkLen)

\* A slice that takes the element at index end too
arraySliceInclusive(array, start, end) ==
  SubSeq(array, start + 1, min(Len(array), end + 1))

\* array.slice(start, end) for 0 <= start <= end
arraySlice(array, start, end) == SubSeq(array, start + 1, min(Len(array), end))

\* for (let i = 0; i < array.length; i += size) chunks.push(array.slice(i, i + size))
RECURSIVE chunkLoop(_, _, _, _)
chunkLoop(array, size, i, chunks) ==
  IF i < Len(array)
    THEN chunkLoop(array, size, i + size, Append(chunks, arraySlice(array, i, i + size)))
    ELSE chunks

chunk(array, size) == chunkLoop(array, size, 0, <<>>)

chunkFrame ==
  << queryCall, webhookSecret, requests, responses, reviewCalls, logged, retryRun, searchCall >>

ChunkCalled ==
  /\ chunkRun = NULL
  /\ \E array \in ChunkArrays, size \in 1..MaxChunkSize :
       chunkRun' = [array |-> array, size |-> size, chunks |-> NULL]
  /\ UNCHANGED chunkFrame
  /\ UNCHANGED reviewFrame

ChunkReturns ==
  /\ chunkRun # NULL
  /\ chunkRun.chunks = NULL
  /\ chunkRun' = [chunkRun EXCEPT !.chunks = [list |-> chunk(chunkRun.array, chunkRun.size)]]
  /\ UNCHANGED chunkFrame
  /\ UNCHANGED reviewFrame

NextChunk == ChunkCalled \/ ChunkReturns

SpecChunk == InitCache /\ [][NextChunk]_vars

RECURSIVE concatAll(_)
concatAll(lists) ==
  IF lists = <<>> THEN <<>> ELSE Head(lists) \o concatAll(Tail(lists))

\* C30: for every array and every size >= 1, chunk(array, size) returns
\* consecutive slices that, joined in order, give the array back; every slice
\* but possibly the last has exactly size elements, no slice is empty, and
\* there are ceil(length / size) of them.
C30_ChunksPartitionTheArray ==
  (chunkRun # NULL /\ chunkRun.chunks # NULL) =>
    LET c == chunkRun.chunks.list
        n == Len(chunkRun.array)
        size == chunkRun.size
    IN  /\ concatAll(c) = chunkRun.array
        /\ \A k \in 1..(Len(c) - 1) : Len(c[k]) = size
        /\ \A k \in 1..Len(c) : Len(c[k]) >= 1 /\ Len(c[k]) <= size
        /\ Len(c) = (n + size - 1) \div size

C30_Witness ==
  /\ chunkRun # NULL /\ chunkRun.chunks # NULL
  /\ chunkRun.size = 3
  /\ Len(chunkRun.array) = 4
  /\ Len(chunkRun.chunks.list) = 2
  /\ Len(chunkRun.chunks.list[2]) = 1
  /\ chunkRun.array[3] # chunkRun.array[4]

\* ------------------------------------------------------------------------
\* LocalRAGService.search(query, category) over a knowledge-base directory:
\* one call. A directory is the list of its entries in readdir order; a file
\* path is the list of its components below the knowledge-base root.
\* ------------------------------------------------------------------------
maxLocalFiles == 3

file(name) == [name |-> name, isDirectory |-> FALSE, entries |-> <<>>]
directory(name, entries) == [name |-> name, isDirectory |-> TRUE, entries |-> entries]

\* The knowledge base of the repository, one with a large category and an
\* empty one
KnowledgeTrees ==
  { << file(<<"R", "E", "A", "D", "M", "E", ".", "m", "d">>),
       directory(<<"b", "a", "c", "k", "e", "n", "d">>, << file(<<"n", "e", "s", "t", "j", "s", "-", "b", "e", "s", "t", "-", "p", "r", "a", "c", "t", "i", "c", "e", "s", ".", "m", "d">>) >>),
       directory(<<"f", "r", "o", "n", "t", "e", "n", "d">>, << file(<<"a", "c", "c", "e", "s", "s", "i", "b", "i", "l", "i", "t", "y", ".", "m", "d">>),
                                  file(<<"a", "n", "g", "u", "l", "a", "r", "-", "b", "e", "s", "t", "-", "p", "r", "a", "c", "t", "i", "c", "e", "s", ".", "m", "d">>),
                                  file(<<"s", "e", "c", "u", "r", "i", "t", "y", ".", "m", "d">>) >>) >>,
    << directory(<<"f", "r", "o", "n", "t", "e", "n", "d">>, << file(<<"a", "1", "1", "y", ".", "m", "d">>), file(<<"f", "o", "r", "m", "s", ".", "m", "d">>),
                                  file(<<"n", "o", "t", "e", "s", ".", "t", "x", "t">>), file(<<"s", "t", "a", "t", "e", ".", "m", "d">>),
                                  file(<<"t", "e", "s", "t", "i", "n", "g", ".", "m", "d">>) >>) >>,
    << >> }

SearchCategories == { <<"f", "r", "o", "n", "t", "e", "n", "d">>, <<"b", "a", "c", "k", "e", "n", "d">>, <<"r", "e", "a", "c", "t">>, <<"s", "e", "c", "u", "r", "i", "t", "y">>, <<"g", "e", "n", "e", "r", "a", "l">> }

SearchQueries ==
  { <<"B", "e", "s", "t", " ", "p", "r", "a", "c", "t", "i", "c", "e", "s", " ", "f", "o", "r", " ", "a", ".", "j", "s", "x">>,
    <<"B", "e", "s", "t", " ", "p", "r", "a", "c", "t", "i", "c", "e", "s", " ", "f", "o", "r", " ", "a", ".", "j", "s", "x", " ", "w", "i", "t", "h", " ", "s", "t", "a", "t", "e", " ", "m", "a", "n", "a", "g", "e", "m", "e", "n", "t">>,
    <<"B", "e", "s", "t", " ", "p", "r", "a", "c", "t", "i", "c", "e", "s", " ", "f", "o", "r", " ", "l", "o", "g", "i", "n", ".", "t", "s", " ", "f", "o", "c", "u", "s", "i", "n", "g", " ", "o", "n", " ", "a", "c", "c", "e", "s", "s", "i", "b", "i", "l", "i", "t", "y">>,
    <<"B", "e", "s", "t", " ", "p", "r", "a", "c", "t", "i", "c", "e", "s", " ", "f", "o", "r", " ", "b", ".", "p", "y", " ", "a", "n", "d", " ", "a", "s", "y", "n", "c", " ", "o", "p", "e", "r", "a", "t", "i", "o", "n", "s">>,
    <<"f", "o", "r", "m", "s">>,
    <<"S", "e", "c", "u", "r", "i", "t", "y", " ", " ", " ", "o", "f", " ", "t", "e", "s", "t", "i", "n", "g">> }

isSpace(c) == c \in {" ", "\t", "\n"}

\* s.split(/\s+/)
RECURSIVE splitWhitespace(_, _, _)
splitWhitespace(s, word, inGap) ==
  IF s = <<>> THEN << word >>
  ELSE IF isSpace(Head(s))
    THEN IF inGap THEN splitWhitespace(Tail(s), word, TRUE)
         ELSE << word >> \o splitWhitespace(Tail(s), <<>>, TRUE)
  ELSE splitWhitespace(Tail(s), Append(word, Head(s)), FALSE)

\* path.basename(file) and path.basename(file, '.md')
basename(path) == path[Len(path)]
basenameWithoutMd(path) ==
  LET name == basename(path)
  IN  IF endsWith(name, <<".", "m", "d">>) /\ Len(name) > 3 THEN SubSeq(name, 1, Len(name) - 3)
      ELSE name

matchesQuery(fileName, queryText) ==
  LET keywords == SelectSeq(splitWhitespace(queryText, <<>>, FALSE), LAMBDA w : Len(w) > 3)
  IN  \E k \in 1..Len(keywords) : includes(fileName, keywords[k])

\* getAllMarkdownFiles(dir), the directory given by its entries
RECURSIVE getAllMarkdownFiles(_, _, _)
getAllMarkdownFiles(entries, dirPath, fileList) ==
  IF entries = <<>> THEN fileList
  ELSE LET e == Head(entries)
           filePath == Append(dirPath, e.name)
           listed == IF e.isDirectory
                       THEN getAllMarkdownFiles(e.entries, filePath, fileList)
                     ELSE IF endsWith(e.name, <<".", "m", "d">>) THEN Append(fileList, filePath)
                     ELSE fileList
       IN  getAllMarkdownFiles(Tail(entries), dirPath, listed)

getRelevantFiles(tree, queryText, category) ==
  LET queryLower == toLowerCase(queryText)
      found == {k \in 1..Len(tree) : tree[k].name = category}
  IN  IF found = {} THEN getAllMarkdownFiles(tree, <<>>, <<>>)
      ELSE LET dir == tree[CHOOSE k \in found : TRUE]
               files == getAllMarkdownFiles(dir.entries, << category >>, <<>>)
               relevantFiles ==
                 SelectSeq(files,
                           LAMBDA f : matchesQuery(toLowerCase(basenameWithoutMd(f)), queryLower))
           IN  IF Len(relevantFiles) = 0 THEN slice(files, maxLocalFiles)
               ELSE slice(relevantFiles, maxLocalFiles)

\* search: null when no file is selected, else one source per selected file
search(tree, queryText, category) ==
  LET files == getRelevantFiles(tree, queryText, category)
  IN  localSearchResult([ files |-> [k \in 1..Len(files) |-> basename(files[k])],
                          extract |-> Text("local answer") ])

searchFrame ==
  << queryCall, webhookSecret, requests, responses, reviewCalls, logged, retryRun, chunkRun >>

SearchCalled ==
  /\ searchCall = NULL
  /\ \E tree \in KnowledgeTrees, q \in SearchQueries, c \in SearchCategories :
       searchCall' = [tree |-> tree, query |-> q, category |-> c, returned |-> NULL]
  /\ UNCHANGED searchFrame
  /\ UNCHANGED reviewFrame

SearchReturns ==
  /\ searchCall # NULL
  /\ searchCall.returned = NULL
  /\ searchCall' =
       [searchCall EXCEPT
          !.returned = [result |-> search(searchCall.tree, searchCall.query,
                                          searchCall.category)]]
  /\ UNCHANGED searchFrame
  /\ UNCHANGED reviewFrame

NextLocalSearch == SearchCalled \/ SearchReturns

SpecLocalSearch == InitCache /\ [][NextLocalSearch]_vars

\* C31: for every query and category the result LocalRAGService.search
\* returns has at most 3 sources, whether or not the knowledge base has a
\* directory for the category.
C31_AtMostThreeSources ==
  (searchCall # NULL /\ searchCall.returned # NULL) =>
    LET r == searchCall.returned.result
    IN  r # NULL => Len(r.sources) <= maxLocalFiles

successSet == \E k \in 1..Len(statuses) : statuses[k].state = "success" /\ statuses[k].ok

C33_SuccessIsFinal ==
  successSet =>
    /\ \A k \in 1..Len(statuses) : statuses[k].state # "failed"
    /\ pc \in {"emoji", "done"}
    /\ failure = "none"
    /\ pc = "done" => (ret # NULL /\ ret.success /\ emoji \in {"ok", "failed"})

C33_Witness ==
  /\ successSet
  /\ pc = "done"
  /\ emoji = "failed"
  /\ ret.success

\* ------------------------------------------------------------------------
\* C34: whenever reviewMergeRequest rejects, it rejects with a ReviewError
\* that carries the original failure, and it does so out of its catch block,
\* after trying to set the commit status to `failed`: either the merge
\* request could not be fetched again, or the `failed` status call was made
\* (and may itself have failed). The original failure is kept unchanged all
\* through the catch block.
\* ------------------------------------------------------------------------
inCatch == pc \in {"catchGetMR", "catchSetFailed"}

C34_RejectsWithOriginalError ==
  /\ [](pc = "threw" =>
          /\ failure # "none"
          /\ ret = [threw |-> "ReviewError", cause |-> failure])
  /\ [][/\ inCatch => failure' = failure
        /\ (pc # "threw" /\ pc' = "threw") =>
             /\ inCatch
             /\ pc = "catchSetFailed" =>
                  /\ Len(statuses') = Len(statuses) + 1
                  /\ statuses'[Len(statuses')].state = "failed"]_vars

C34_Witness ==
  /\ pc = "threw"
  /\ failure = "addMergeRequestComment"
  /\ ret = [threw |-> "ReviewError", cause |-> "addMergeRequestComment"]
  /\ statuses[Len(statuses)] = statusCall("failed", NULL, FALSE)

\* ------------------------------------------------------------------------
\* C35: in every published non-empty report the analysed-file count of the
\* header ('Files analyzed: X/Y') is the number of per-file sections of the
\* comment, and it is the file count in the description of the `success`
\* status the same invocation sets.
\* ------------------------------------------------------------------------
C35_HeaderCountMatchesSections ==
  \A p \in 1..Len(posts) :
    (posts[p].ok /\ posts[p].comment.kind = "review") =>
      /\ posts[p].comment.reviewedFiles = Len(posts[p].comment.sections)
      /\ \A k \in 1..Len(statuses) :
           statuses[k].state = "success" =>
             statuses[k].description.analyzed = posts[p].comment.reviewedFiles

\* ------------------------------------------------------------------------
\* C36: a retrieval that finds an unexpired entry under its key returns it
\* at once, with no remote and no local call, and leaves the cache as it
\* was: same entries, same timestamps, same order. The expiry time of an
\* entry therefore runs from the time it was stored.
\* ------------------------------------------------------------------------
C36_HitLeavesCacheUnchanged ==
  /\ [](\A key \in 1..AgeKeys :
          LET looked == lookupContext(key, cache, now)
          IN  looked.task.hit =>
                /\ looked.cache = cache
                /\ looked.task.remoteCalls = 0 /\ looked.task.localCalls = 0
                /\ looked.task.st = "analyze"
                /\ looked.task.ragContext = cacheGet(cache, key).data)
  /\ [][(task' # task /\ task'[1].hit) => cache' = cache]_vars

C36_Witness ==
  /\ task # <<>>
  /\ task[1].hit
  /\ task[1].remoteCalls = 0
  /\ Len(cache) >= 2
  /\ cache[1].key = task[1].cacheKey
  /\ now > cache[1].timestamp
  /\ cache[2].timestamp > cache[1].timestamp

C38_DisabledRagDoesNothing ==
  ~config.ragEnabled =>
    /\ \A f \in FileUniverse :
         LET got == getRelevantContext(ContextKey[f], cache, now)
         IN  /\ got.cache = cache
             /\ got.task.st = "analyze"
             /\ got.task.ragContext = NULL
             /\ got.task.cacheKey = <<>>
             /\ ~got.task.hit
             /\ got.task.remoteCalls = 0
             /\ got.task.localCalls = 0
    /\ cache = <<>>
    /\ \A i \in 1..Len(task) :
         /\ task[i].cacheKey = <<>>
         /\ ~task[i].hit
         /\ task[i].remoteCalls = 0
         /\ task[i].localCalls = 0
         /\ task[i].ragContext = NULL
         /\ task[i].value # NULL =>
              /\ ~task[i].value.hasBestPractices
              /\ task[i].value.ragSources = <<>>

C38_Witness ==
  /\ ~config.ragEnabled
  /\ \E i, j \in 1..Len(task) :
       /\ Frontend[limitedFiles[i]]
       /\ task[i].st = "done"
       /\ task[i].value # NULL
       /\ ~task[i].value.hasBestPractices
       /\ ~Frontend[limitedFiles[j]]
       /\ task[j].st = "analyze"

\* ------------------------------------------------------------------------
\* C39: in retry(fn, maxRetries, baseDelay) the wait that follows the failed
\* attempt number i, counting from 0, is baseDelay * 2^i, every failed
\* attempt but the last is followed by one wait, and the last failed attempt
\* is followed by none: retry rejects in the step in which fn failed.
\* ------------------------------------------------------------------------
C39_WaitDoublesAndNoneAfterLast ==
  /\ [](retryRun # NULL =>
          LET r == retryRun
              n == Len(r.outcomes)
          IN  /\ \A k \in 1..Len(r.delays) : r.delays[k] = r.baseDelay * 2 ^ (k - 1)
              /\ r.st \in {"calling", "delaying"} => Len(r.delays) = n
              /\ (r.st = "rejected" /\ n > 0) => Len(r.delays) = n - 1
              /\ r.st = "rejected" => n = r.maxRetries
              /\ r.st = "resolved" => Len(r.delays) = n - 1)
  /\ [][(retryRun # NULL /\ retryRun' # NULL /\ retryRun'.st = "rejected")
          => retryRun.st \in {"calling", "rejected"}]_vars

C39_Witness ==
  /\ retryRun # NULL
  /\ retryRun.st = "rejected"
  /\ retryRun.maxRetries = 4
  /\ retryRun.baseDelay = defaultBaseDelay
  /\ retryRun.delays = << 1000, 2000, 4000 >>

\* ------------------------------------------------------------------------
\* chunk(array, size), one step per pass of its for loop, for sizes from 0.
\* The loop of a call that does not end is followed for MaxPasses passes
\* ------------------------------------------------------------------------
MaxPasses == 6

ChunkSizes == 0..MaxChunkSize

\* const chunks = []; let i = 0
ChunkLoopEntered ==
  /\ chunkRun = NULL
  /\ \E array \in ChunkArrays, size \in ChunkSizes :
       chunkRun' = [array |-> array, size |-> size, i |-> 0, chunks |-> <<>>, st |-> "loop"]
  /\ UNCHANGED chunkFrame
  /\ UNCHANGED reviewFrame

\* i < array.length: chunks.push(array.slice(i, i + size)); i += size
ChunkLoopPass ==
  /\ chunkRun # NULL
  /\ chunkRun.st = "loop"
  /\ chunkRun.i < Len(chunkRun.array)
  /\ Len(chunkRun.chunks) < MaxPasses
  /\ chunkRun' =
       [chunkRun EXCEPT
          !.chunks = Append(@, arraySlice(chunkRun.array, chunkRun.i,
                                          chunkRun.i + chunkRun.size)),
          !.i = @ + chunkRun.size]
  /\ UNCHANGED chunkFrame
  /\ UNCHANGED reviewFrame

\* i >= array.length: return chunks
ChunkLoopExit ==
  /\ chunkRun # NULL
  /\ chunkRun.st = "loop"
  /\ ~(chunkRun.i < Len(chunkRun.array))
  /\ chunkRun' = [chunkRun EXCEPT !.st = "returned"]
  /\ UNCHANGED chunkFrame
  /\ UNCHANGED reviewFrame

NextChunkLoop == ChunkLoopEntered \/ ChunkLoopPass \/ ChunkLoopExit

SpecChunkLoop == InitCache /\ [][NextChunkLoop]_vars

\* C40: chunk(array, size) terminates for every finite array and every
\* integer size >= 0: each pass of its loop brings i closer to array.length,
\* so the loop makes at most array.length passes before it returns.
C40_ChunkTerminates ==
  /\ [](chunkRun # NULL => Len(chunkRun.chunks) <= Len(chunkRun.array))
  /\ [][(chunkRun # NULL /\ chunkRun' # NULL /\ Len(chunkRun'.chunks) > Len(chunkRun.chunks))
          => chunkRun'.i > chunkRun.i]_vars

====
